---------------------------- MODULE Spec2Model ----------------------------
(***************************************************************************)
(* g0t-phish: the agentic tool-use loop (analyzeWithTools), its            *)
(* degradation paths and the tool-free analyzer (analyzeEmail).            *)
(*                                                                         *)
(* One analysis invocation is a sequential chain of steps that suspends    *)
(* only at awaits: the model call (raced against a 7000 ms timer in the    *)
(* loop, not raced in analyzeEmail) and each tool call.  The clock (now)   *)
(* advances only across those awaits; the synchronous code between two     *)
(* awaits is one action.                                                   *)
(***************************************************************************)
EXTENDS Integers, Sequences, FiniteSets, TLC

VARIABLES
    entry,          \* which exported function the caller invoked
    email,          \* the EmailInput handed to the invocation (never mutated)
    pc,             \* position of the invocation
    now,            \* Date.now()
    startTime,      \* analyzeWithTools: const startTime = Date.now()
    iterationCount, \* analyzeWithTools: let iterationCount
    toolCalls,      \* analyzeWithTools: const toolCalls: ToolCall[]
    totalToolTime,  \* analyzeWithTools: let totalToolTime
    messages,       \* analyzeWithTools: const messages: MessageParam[]
    response,       \* the model turn being processed (tool_use turns)
    blockIdx,       \* index of the tool_use block being executed
    toolResults,    \* analyzeWithTools: const toolResults (per turn)
    callStart,      \* time at which the pending model call was started
    result,         \* {} while running, {record} once returned
    thrown,         \* {} or {message} once the invocation rejected
    cause,          \* history: why the invocation ended the way it did
    modelCallLog,   \* history: one entry per model call made by the loop
    lastTurn,       \* history: the last model turn the loop received
    simpleStart,    \* analyzeEmail: const startTime = Date.now()
    fallbackCalls,  \* history: calls of fallbackToSimpleAnalysis
    simpleModelCalls, \* history: model calls made by analyzeEmail
    tool,           \* one dispatch of executeTool on its own (its steps)
    store,          \* the Redis store shared by concurrent invocations
    invocations     \* the invocations that run against the shared store

vars == <<entry, email, pc, now, startTime, iterationCount, toolCalls,
          totalToolTime, messages, response, blockIdx, toolResults,
          callStart, result, thrown, cause, modelCallLog, lastTurn,
          simpleStart, fallbackCalls, simpleModelCalls, tool, store,
          invocations>>

---------------------------------------------------------------------------
(* Program constants.                                                      *)

MAX_TOOL_CALLS == 3
MAX_TOOL_LOOP_TIME_MS == 5000
MAX_ANALYSIS_TIME_MS == 8000
MIN_FALLBACK_TIME_MS == 2500
MODEL_CALL_TIMEOUT_MS == 7000
REPUTATION_TIMEOUT_MS == 3000

\* The platform's limit on one request, in seconds.
maxDuration == 10

AGENT_MODEL == "claude-haiku-4-5-20251001"

Verdicts == {"safe", "suspicious", "phishing"}

LocalToolNames == {"extract_urls", "check_authentication", "analyze_sender"}
ReputationToolNames == {"check_url_reputation", "check_ip_reputation"}
ToolNames == LocalToolNames \cup ReputationToolNames

---------------------------------------------------------------------------
(* Bounds of the model.                                                    *)

\* Largest number of content blocks in one model turn.
MaxBlocks == 2

\* Date.now() at invocation start.
StartClocks == {1000}

\* Time a model call takes when it answers or rejects before the timer.
ModelLatencies == {400, 2600}

\* Time the un-raced model call of analyzeEmail takes when it answers.
FallbackLatencies == {1500, 9000}

\* Time a reputation lookup takes when the provider answers (a lookup that
\* runs into the HTTP client's timeout takes REPUTATION_TIMEOUT_MS).
ReputationLatencies == {300}

\* The tool names the modelled model service asks for, in the order it
\* cycles through them: local tools, reputation tools, and a name outside
\* the fixed five.  A turn requests 1..MaxBlocks consecutive names of this
\* cycle, starting at any of RequestOffsets.
RequestOrder == <<"extract_urls", "check_url_reputation", "lookup_whois",
                  "check_ip_reputation">>
RequestOffsets == {0, 1, 2}

---------------------------------------------------------------------------
(* Optional values: {} is undefined, {v} is v.                             *)

Undefined == {}
Some(v) == {v}
The(o) == CHOOSE v \in o : TRUE

---------------------------------------------------------------------------
(* Text.  A text is a sequence of tokens: whitespace ("SP", "NL"), the     *)
(* fence "FENCE", the word "json", prose ("junk") and JSON documents.        *)

Docs == {"docPhishing", "docSafe", "docBadVerdict", "docOverride", "docNumber"}

Whitespace == {"SP", "NL"}

\* What JSON.parse yields for each document token.
DocValue(d) ==
    CASE d = "docPhishing" ->
           [verdict |-> "phishing", confidence |-> 95,
            threats |-> <<[type |-> "malicious_link", severity |-> "high"]>>,
            authentication |-> [spf |-> "fail", dkim |-> "none", dmarc |-> "none"],
            summary |-> "model summary",
            reasoning |-> <<"model step">>]
      [] d = "docSafe" ->
           [verdict |-> "safe", confidence |-> 10,
            threats |-> <<>>,
            authentication |-> [spf |-> "pass", dkim |-> "pass", dmarc |-> "pass"],
            summary |-> "model summary"]
      [] d = "docBadVerdict" ->
           [verdict |-> "malware", confidence |-> 150,
            threats |-> <<>>,
            authentication |-> [spf |-> "none", dkim |-> "none", dmarc |-> "none"],
            summary |-> "model summary"]
      [] d = "docOverride" ->
           [verdict |-> "safe", confidence |-> 5,
            threats |-> <<>>,
            authentication |-> [spf |-> "pass", dkim |-> "pass", dmarc |-> "pass"],
            summary |-> "model summary",
            toolCalls |-> Some(<<"forged">>),
            metadata |-> [model |-> "forged", latency |-> 0, inputTokens |-> 0,
                          outputTokens |-> 0, toolExecutionTime |-> 0]]
      [] OTHER -> <<>>   \* "docNumber": a JSON number; spreading it adds no key

Texts ==
    { <<"docPhishing">>,
      <<"FENCE", "json", "NL", "docPhishing", "NL", "FENCE">>,
      <<"SP", "FENCE", "NL", "docSafe", "NL", "FENCE", "NL">>,
      <<"FENCE", "json", "docPhishing", "FENCE">>,
      <<"junk">>,
      <<"docBadVerdict">>,
      <<"docOverride">>,
      <<"docNumber">>,
      <<>> }

RECURSIVE TrimStart(_)
TrimStart(s) ==
    IF s # <<>> /\ Head(s) \in Whitespace THEN TrimStart(Tail(s)) ELSE s

RECURSIVE TrimEnd(_)
TrimEnd(s) ==
    IF s # <<>> /\ s[Len(s)] \in Whitespace
    THEN TrimEnd(SubSeq(s, 1, Len(s) - 1)) ELSE s

\* String.prototype.trim
Trim(s) == TrimEnd(TrimStart(s))

\* String.prototype.startsWith
StartsWith(s, p) == Len(s) >= Len(p) /\ SubSeq(s, 1, Len(p)) = p

\* s.replace(/^<p>\s*\n/, ''): p, then a run of whitespace whose last
\* matched character is a newline (\s* is greedy and backtracks to the last
\* newline of the run).
StripLeading(s, p) ==
    IF ~StartsWith(s, p) THEN s
    ELSE LET n == Len(p)
             inRun(i) == \A j \in (n + 1)..i : s[j] \in Whitespace
             ends == {i \in (n + 1)..Len(s) : inRun(i) /\ s[i] = "NL"}
         IN IF ends = {} THEN s
            ELSE LET k == CHOOSE i \in ends : \A j \in ends : j <= i
                 IN SubSeq(s, k + 1, Len(s))

\* s.replace(/\n<fence>\s*$/, ''): the leftmost newline followed by a fence and
\* nothing but whitespace up to the end of the string.
StripTrailing(s) ==
    LET starts == {i \in 1..(Len(s) - 1) :
                      /\ s[i] = "NL"
                      /\ s[i + 1] = "FENCE"
                      /\ \A j \in (i + 2)..Len(s) : s[j] \in Whitespace}
    IN IF starts = {} THEN s
       ELSE LET k == CHOOSE i \in starts : \A j \in starts : i <= j
            IN SubSeq(s, 1, k - 1)

\* parseFinalResponse, "strip markdown if present"
StripFences(text) ==
    LET jsonText == Trim(text)
    IN IF StartsWith(jsonText, <<"FENCE", "json">>)
       THEN StripTrailing(StripLeading(jsonText, <<"FENCE", "json">>))
       ELSE IF StartsWith(jsonText, <<"FENCE">>)
            THEN StripTrailing(StripLeading(jsonText, <<"FENCE">>))
            ELSE jsonText

\* JSON.parse: one document, optionally surrounded by whitespace.
JSONParse(s) ==
    LET t == Trim(s)
    IN IF Len(t) = 1 /\ t[1] \in Docs
       THEN [ok |-> TRUE, value |-> DocValue(t[1])]
       ELSE [ok |-> FALSE, error |-> "SyntaxError"]

\* Object spread: { ...a, ...b }
\* A spread in which the keys of the first object win.
Spread_FirstWins(a, b) ==
    [k \in DOMAIN a \cup DOMAIN b |-> IF k \in DOMAIN a THEN a[k] ELSE b[k]]

Spread(a, b) ==
    [k \in DOMAIN a \cup DOMAIN b |-> IF k \in DOMAIN b THEN b[k] ELSE a[k]]


---------------------------------------------------------------------------
(* The email.  formatEmailForAnalysis calls email.receivedAt.toISOString(), *)
(* which throws a RangeError on an Invalid Date; both analyzers format the *)
(* same email, so the outcome is a function of the email.                  *)

Emails == [receivedAtValid : BOOLEAN]

formatEmailForAnalysis(e) ==
    IF e.receivedAtValid
    THEN [ok |-> TRUE, value |-> "formatted email"]
    ELSE [ok |-> FALSE, error |-> "Invalid time value"]

---------------------------------------------------------------------------
(* Model turns.                                                            *)

StopReasons == {"end_turn", "max_tokens", "tool_use", "stop_sequence"}

TextBlock(t) == [type |-> "text", text |-> t]
ToolUseBlock(id, name) == [type |-> "tool_use", id |-> id, name |-> name]

\* Contents of a turn that carries no tool_use block: text blocks only.
TextContents ==
    {<<>>} \cup {<<TextBlock(t)>> : t \in Texts}

\* The n names a turn requests when it starts at offset p of the cycle.
RequestedNames(p, n) ==
    [i \in 1..n |-> RequestOrder[((p + i - 1) % Len(RequestOrder)) + 1]]

\* The tool_use blocks of turn number c for the names q; the model service
\* gives each block an id of its own.
ToolBlocks(c, q) == [i \in 1..Len(q) |-> ToolUseBlock(<<c, i>>, q[i])]

\* Contents of a turn that requests tools: 1..MaxBlocks tool_use blocks, or
\* one text block followed by one tool_use block (the text of such a turn
\* is not interpreted by the loop).
ToolContents(c) ==
    {ToolBlocks(c, RequestedNames(p, n)) :
        p \in RequestOffsets, n \in 1..MaxBlocks}
    \cup {<<TextBlock(<<"junk">>)>> \o ToolBlocks(c, RequestedNames(p, 1)) :
             p \in RequestOffsets}

Usage == [input_tokens |-> 100, output_tokens |-> 20]

Message(stop, content) ==
    [stop_reason |-> stop, content |-> content, model |-> AGENT_MODEL,
     usage |-> Usage]

\* content.filter(block => block.type === 'tool_use')
RECURSIVE FilterToolUse(_)
FilterToolUse(content) ==
    IF content = <<>> THEN <<>>
    ELSE IF Head(content).type = "tool_use"
         THEN <<Head(content)>> \o FilterToolUse(Tail(content))
         ELSE FilterToolUse(Tail(content))

\* content.find(block => block.type === 'text')
FindTextBlock(content) ==
    LET idx == {i \in 1..Len(content) : content[i].type = "text"}
    IN IF idx = {} THEN Undefined
       ELSE Some(content[CHOOSE i \in idx : \A j \in idx : i <= j])

---------------------------------------------------------------------------
(* Records.                                                                *)

\* Metadata that does not carry the tool-execution time.
Metadata_ToolTimeUnset(model, totalLatency, inputTokens, outputTokens, toolExecutionTime) ==
    [model |-> model, latency |-> totalLatency, inputTokens |-> inputTokens,
     outputTokens |-> outputTokens, toolExecutionTime |-> 0]

Metadata(model, totalLatency, inputTokens, outputTokens, toolExecutionTime) ==
    [model |-> model, latency |-> totalLatency, inputTokens |-> inputTokens,
     outputTokens |-> outputTokens, toolExecutionTime |-> toolExecutionTime]

\* The log attached even when it is empty.
ToolLogField_AlwaysList(calls) == Some(calls)

\* toolCalls.length > 0 ? toolCalls : undefined
ToolLogField(calls) == IF Len(calls) > 0 THEN Some(calls) ELSE Undefined

PLACEHOLDER_SUMMARY ==
    "Analysis incomplete due to timeout. Email flagged as suspicious for manual review. Please verify sender authenticity and avoid clicking links until you can confirm this email is legitimate."

\* A placeholder that fails open: "safe" instead of "suspicious".
buildConservativeAnalysis_FailOpen(e, calls, metadata) ==
    [verdict |-> "safe",
     confidence |-> 0,
     threats |-> <<>>,
     authentication |-> [spf |-> "none", dkim |-> "none", dmarc |-> "none"],
     summary |-> PLACEHOLDER_SUMMARY,
     reasoning |-> <<>>,
     toolCalls |-> ToolLogField(calls),
     metadata |-> metadata]

buildConservativeAnalysis(e, calls, metadata) ==
    [verdict |-> "suspicious",
     confidence |-> 50,
     threats |-> <<>>,
     authentication |-> [spf |-> "none", dkim |-> "none", dmarc |-> "none"],
     summary |-> PLACEHOLDER_SUMMARY,
     reasoning |->
        <<"Analysis started but did not complete within time limit",
          "Executed " \o ToString(Len(calls)) \o " tool"
              \o (IF Len(calls) = 1 THEN "" ELSE "s") \o " before timeout",
          "Returning conservative \"suspicious\" verdict for safety",
          "Recommend manual review of this email">>,
     toolCalls |-> ToolLogField(calls),
     metadata |-> metadata]

\* A parser that accepts what it cannot parse as an empty object.
parseFinalResponse_Lenient(content, calls, metadata) ==
    LET textBlock == FindTextBlock(content)
        parsed == IF textBlock = Undefined
                  THEN [ok |-> FALSE, error |-> "No text response from Claude"]
                  ELSE JSONParse(StripFences(The(textBlock).text))
    IN [ok |-> TRUE,
        value |-> Spread(IF parsed.ok THEN parsed.value ELSE <<>>,
                         [toolCalls |-> ToolLogField(calls),
                          metadata |-> metadata])]

parseFinalResponse(content, calls, metadata) ==
    LET textBlock == FindTextBlock(content)
    IN IF textBlock = Undefined
       THEN [ok |-> FALSE, error |-> "No text response from Claude"]
       ELSE LET parsed == JSONParse(StripFences(The(textBlock).text))
            IN IF ~parsed.ok THEN parsed
               ELSE [ok |-> TRUE,
                     value |-> Spread(parsed.value,
                                      [toolCalls |-> ToolLogField(calls),
                                       metadata |-> metadata])]


---------------------------------------------------------------------------
(* Tools, as the loop sees them: executeTool either returns a ToolResult   *)
(* or throws.                                                              *)

ToolSuccess(name, source) ==
    [success |-> TRUE, data |-> Some([tool |-> name]), error |-> Undefined,
     source |-> source]

ToolFailure(message, source) ==
    [success |-> FALSE, data |-> Undefined, error |-> Some(message),
     source |-> source]

ReputationSource(name) ==
    IF name = "check_url_reputation" THEN "virustotal" ELSE "abuseipdb"

\* The error string of a lookup that yielded nothing.
ProviderUnavailable(name) ==
    IF name = "check_url_reputation"
    THEN "VirusTotal API unavailable or URL not found"
    ELSE "AbuseIPDB API unavailable or IP not found"

\* The error string of a reputation tool whose API key is not set.
KeyNotConfigured(name) ==
    IF name = "check_url_reputation"
    THEN "VirusTotal API key not configured. Tool unavailable."
    ELSE "AbuseIPDB API key not configured. Tool unavailable."

\* The outcomes of executeTool(name, input, email) and the time each takes:
\* a local tool returns at once; a reputation tool returns its lookup's
\* result, a failure when its HTTP client gives up, or at once the failure
\* of a tool that is not configured; any other name throws.
executeTool(name) ==
    IF name \in LocalToolNames
    THEN {[kind |-> "return", latency |-> 0,
           result |-> ToolSuccess(name, "local")]}
    ELSE IF name \in ReputationToolNames
    THEN {[kind |-> "return", latency |-> d,
           result |-> ToolSuccess(name, ReputationSource(name))] :
              d \in ReputationLatencies}
         \cup
         {[kind |-> "return", latency |-> REPUTATION_TIMEOUT_MS,
           result |-> ToolFailure(ProviderUnavailable(name),
                                  ReputationSource(name))]}
         \cup
         {[kind |-> "return", latency |-> 0,
           result |-> ToolFailure(KeyNotConfigured(name),
                                  ReputationSource(name))]}
    ELSE {[kind |-> "throw", latency |-> 0,
           error |-> "Unknown tool: " \o name]}

\* JSON.stringify(x): undefined for undefined, a JSON text otherwise.
JSONStringify(o) == IF o = Undefined THEN Undefined ELSE Some([json |-> The(o)])

---------------------------------------------------------------------------
(* Budget checks.                                                          *)

\* An off-by-one loop condition.
IterationsLeft_Inclusive(n) == n <= MAX_TOOL_CALLS

\* while (iterationCount < MAX_TOOL_CALLS)
IterationsLeft(n) == n < MAX_TOOL_CALLS

\* if (elapsed > MAX_TOOL_LOOP_TIME_MS) break
OverToolLoopBudget(elapsed) == elapsed > MAX_TOOL_LOOP_TIME_MS

\* if (elapsed + MIN_FALLBACK_TIME_MS > MAX_ANALYSIS_TIME_MS)
InsufficientFallbackTime(elapsed) ==
    elapsed + MIN_FALLBACK_TIME_MS > MAX_ANALYSIS_TIME_MS

---------------------------------------------------------------------------
(* Initial state: a caller invokes analyzeWithTools or analyzeEmail.       *)

\* No dispatch of its own is in progress.
NoTool == [pc |-> "none"]

\* No shared store is in use; the variables outside one analysis.
NoStore == [keys |-> {}]
sharedVars == <<store, invocations>>
toolVars == <<tool, sharedVars>>

NoTurn == [stop_reason |-> "none", content |-> <<>>, model |-> AGENT_MODEL,
           usage |-> Usage]

Init ==
    /\ entry \in {"analyzeWithTools", "analyzeEmail"}
    /\ email \in Emails
    /\ pc = IF entry = "analyzeWithTools" THEN "start" ELSE "analyzeEmail"
    /\ now \in StartClocks
    /\ startTime = now
    /\ iterationCount = 0
    /\ toolCalls = <<>>
    /\ totalToolTime = 0
    /\ messages = <<>>
    /\ response = NoTurn
    /\ blockIdx = 0
    /\ toolResults = <<>>
    /\ callStart = now
    /\ result = Undefined
    /\ thrown = Undefined
    /\ cause = "none"
    /\ modelCallLog = <<>>
    /\ lastTurn = NoTurn
    /\ simpleStart = now
    /\ fallbackCalls = 0
    /\ simpleModelCalls = 0
    /\ tool = NoTool
    /\ store = NoStore
    /\ invocations = <<>>

---------------------------------------------------------------------------
(* analyzeWithTools.                                                       *)

loopVars == <<iterationCount, toolCalls, totalToolTime, messages, response,
              blockIdx, toolResults>>
simpleVars == <<simpleStart, fallbackCalls, simpleModelCalls>>

\* return <record> from analyzeWithTools or analyzeEmail
Return(rec, why) ==
    /\ result' = Some(rec)
    /\ pc' = "returned"
    /\ cause' = why

\* The two "return buildConservativeAnalysis(...)" of the inner try and its
\* catch (toolLoopError): the placeholder, built from the tool log so far.
ReturnConservative(t, why) ==
    Return(buildConservativeAnalysis(email, toolCalls,
               Metadata(AGENT_MODEL, t - startTime, 0, 0, totalToolTime)),
           why)

\* Entry: the first user message is the formatted email; a throw here is
\* outside the inner try and lands in the outer catch.
Start ==
    /\ pc = "start"
    /\ LET f == formatEmailForAnalysis(email)
       IN IF f.ok
          THEN /\ messages' = <<[role |-> "user", content |-> f.value]>>
               /\ pc' = "loop"
               /\ cause' = cause
          ELSE /\ messages' = messages
               /\ pc' = "catch"
               /\ cause' = "formatError"
    /\ UNCHANGED <<toolVars, entry, email, now, startTime, iterationCount, toolCalls,
                   totalToolTime, response, blockIdx, toolResults, callStart,
                   result, thrown, modelCallLog, lastTurn, simpleVars>>

\* The while condition fails: the loop is left and the placeholder returned.
LoopExhausted ==
    /\ pc = "loop"
    /\ ~IterationsLeft(iterationCount)
    /\ ReturnConservative(now, "exhausted")
    /\ UNCHANGED <<toolVars, entry, email, now, startTime, loopVars, callStart, thrown,
                   modelCallLog, lastTurn, simpleVars>>

\* The tool-phase ceiling is exceeded: break, and the placeholder returned.
LoopOutOfTime ==
    /\ pc = "loop"
    /\ IterationsLeft(iterationCount)
    /\ OverToolLoopBudget(now - startTime)
    /\ ReturnConservative(now, "elapsed")
    /\ UNCHANGED <<toolVars, entry, email, now, startTime, loopVars, callStart, thrown,
                   modelCallLog, lastTurn, simpleVars>>

\* Promise.race([anthropic.messages.create(...), 7000 ms timer])
CallModel ==
    /\ pc = "loop"
    /\ IterationsLeft(iterationCount)
    /\ ~OverToolLoopBudget(now - startTime)
    /\ pc' = "awaitModel"
    /\ callStart' = now
    /\ modelCallLog' = Append(modelCallLog,
                              [iteration |-> iterationCount,
                               elapsed |-> now - startTime,
                               messages |-> messages])
    /\ UNCHANGED <<toolVars, entry, email, now, startTime, loopVars, result, thrown,
                   cause, lastTurn, simpleVars>>

\* A finished turn: parse it; a throw of parseFinalResponse is caught by the
\* catch of the inner try.
Finish(msg, t) ==
    LET r == parseFinalResponse(msg.content, toolCalls,
                 Metadata(msg.model, t - startTime, msg.usage.input_tokens,
                          msg.usage.output_tokens, totalToolTime))
    IN /\ IF r.ok THEN Return(r.value, "done")
                  ELSE ReturnConservative(t, "parseError")
       /\ UNCHANGED loopVars

\* The turn requests tools: the for loop over toolUseBlocks begins.
BeginTools(msg) ==
    /\ response' = msg
    /\ blockIdx' = 1
    /\ toolResults' = <<>>
    /\ pc' = "execTools"
    /\ UNCHANGED <<iterationCount, toolCalls, totalToolTime, messages, result,
                   cause>>

\* The dispatch on response.stop_reason, at time t.
HandleResponse(msg, t) ==
    IF msg.stop_reason = "end_turn" \/ msg.stop_reason = "max_tokens"
    THEN Finish(msg, t)
    ELSE IF msg.stop_reason = "tool_use"
    THEN IF Len(FilterToolUse(msg.content)) = 0
         THEN Finish(msg, t)
         ELSE BeginTools(msg)
    ELSE \* unexpected stop reason: break
         /\ ReturnConservative(t, "unexpectedStop")
         /\ UNCHANGED loopVars

\* The model answers before the timer, d ms after the call.
ModelAnswers(msg, d) ==
    /\ pc = "awaitModel"
    /\ d < MODEL_CALL_TIMEOUT_MS
    /\ now' = callStart + d
    /\ lastTurn' = msg
    /\ HandleResponse(msg, callStart + d)
    /\ UNCHANGED <<toolVars, entry, email, startTime, callStart, thrown, modelCallLog,
                   simpleVars>>

ModelFinishes ==
    \E d \in ModelLatencies, stop \in {"end_turn", "max_tokens", "tool_use"},
       content \in TextContents :
        ModelAnswers(Message(stop, content), d)

ModelRequestsTools ==
    \E d \in ModelLatencies, content \in ToolContents(Len(modelCallLog)) :
        ModelAnswers(Message("tool_use", content), d)

ModelUnexpectedStop ==
    \E d \in ModelLatencies, content \in {<<>>, <<TextBlock(<<"docSafe">>)>>} :
        ModelAnswers(Message("stop_sequence", content), d)

\* The model call rejects before the timer, d ms after the call.
ModelRejects ==
    \E d \in ModelLatencies :
        /\ pc = "awaitModel"
        /\ d < MODEL_CALL_TIMEOUT_MS
        /\ now' = callStart + d
        /\ ReturnConservative(callStart + d, "modelError")
        /\ UNCHANGED <<toolVars, entry, email, startTime, loopVars, callStart, thrown,
                       modelCallLog, lastTurn, simpleVars>>

\* The timer fires first: reject(new Error('Claude API timeout')).  The
\* model's answer, if one arrives later, is dropped by Promise.race.
ModelCallTimeout ==
    /\ pc = "awaitModel"
    /\ now' = callStart + MODEL_CALL_TIMEOUT_MS
    /\ ReturnConservative(callStart + MODEL_CALL_TIMEOUT_MS, "modelTimeout")
    /\ UNCHANGED <<toolVars, entry, email, startTime, loopVars, callStart, thrown,
                   modelCallLog, lastTurn, simpleVars>>


\* The ToolCall pushed to the log after executeTool returned.
ToolCallEntry(toolUse, res, toolStartTime, endTime) ==
    [id |-> toolUse.id, name |-> toolUse.name, result |-> res,
     startTime |-> toolStartTime, endTime |-> endTime,
     duration |-> endTime - toolStartTime]

\* toolCalls.push(toolCall)
PushToolCall(calls, entryRec) == Append(calls, entryRec)

\* The tool_result block for a call that returned.
ToolResultBlock(toolUse, res) ==
    [type |-> "tool_result", tool_use_id |-> toolUse.id,
     content |-> JSONStringify(res.data), is_error |-> Undefined]

\* A catch that reports the thrown call like a returned one.
ToolErrorBlock_Unflagged(toolUse, message) ==
    [type |-> "tool_result", tool_use_id |-> toolUse.id,
     content |-> JSONStringify(Some([error |-> message])),
     is_error |-> Undefined]

\* The tool_result block for a call that threw.
ToolErrorBlock(toolUse, message) ==
    [type |-> "tool_result", tool_use_id |-> toolUse.id,
     content |-> JSONStringify(Some([error |-> message])),
     is_error |-> Some(TRUE)]

\* A loop that resumes the conversation after the first call of a turn.
EndOfTurn_Early(results) ==
    /\ messages' = messages \o
           <<[role |-> "assistant", content |-> response.content],
             [role |-> "user", content |-> results]>>
    /\ iterationCount' = iterationCount + 1
    /\ blockIdx' = 0
    /\ pc' = "loop"

\* After the last block of the turn: both turns are appended to the
\* conversation, the iteration is counted and the loop continues.
EndOfTurn(results) ==
    IF blockIdx = Len(FilterToolUse(response.content))
    THEN /\ messages' = messages \o
                <<[role |-> "assistant", content |-> response.content],
                  [role |-> "user", content |-> results]>>
         /\ iterationCount' = iterationCount + 1
         /\ blockIdx' = 0
         /\ pc' = "loop"
    ELSE /\ blockIdx' = blockIdx + 1
         /\ UNCHANGED <<messages, iterationCount, pc>>

\* One pass of "for (const toolUse of toolUseBlocks)" whose executeTool
\* returns a ToolResult.
ToolReturns ==
    /\ pc = "execTools"
    /\ LET toolUse == FilterToolUse(response.content)[blockIdx]
       IN \E o \in executeTool(toolUse.name) :
            /\ o.kind = "return"
            /\ now' = now + o.latency
            /\ totalToolTime' = totalToolTime + ((now + o.latency) - now)
            /\ toolCalls' = PushToolCall(toolCalls,
                   ToolCallEntry(toolUse, o.result, now, now + o.latency))
            /\ toolResults' = Append(toolResults,
                                     ToolResultBlock(toolUse, o.result))
            /\ EndOfTurn(toolResults')
    /\ UNCHANGED <<toolVars, entry, email, startTime, response, callStart, result,
                   thrown, cause, modelCallLog, lastTurn, simpleVars>>

\* One pass whose executeTool throws: caught, reported to the model.
ToolThrows ==
    /\ pc = "execTools"
    /\ LET toolUse == FilterToolUse(response.content)[blockIdx]
       IN \E o \in executeTool(toolUse.name) :
            /\ o.kind = "throw"
            /\ now' = now + o.latency
            /\ toolResults' = Append(toolResults,
                                     ToolErrorBlock(toolUse, o.error))
            /\ EndOfTurn(toolResults')
    /\ UNCHANGED <<toolVars, entry, email, startTime, response, callStart, result,
                   thrown, cause, modelCallLog, lastTurn, simpleVars,
                   toolCalls, totalToolTime>>

\* The outer catch: the placeholder if too little time is left, the
\* tool-free analyzer otherwise.
CatchOuter ==
    /\ pc = "catch"
    /\ LET elapsed == now - startTime
       IN IF InsufficientFallbackTime(elapsed)
          THEN /\ Return(buildConservativeAnalysis(email, toolCalls,
                            Metadata(AGENT_MODEL, elapsed, 0, 0, totalToolTime)),
                         cause)
               /\ UNCHANGED fallbackCalls
          ELSE \* return fallbackToSimpleAnalysis(email, startTime)
               /\ pc' = "analyzeEmail"
               /\ fallbackCalls' = fallbackCalls + 1
               /\ UNCHANGED <<result, cause>>
    /\ UNCHANGED <<toolVars, entry, email, now, startTime, loopVars, callStart, thrown,
                   modelCallLog, lastTurn, simpleStart, simpleModelCalls>>

---------------------------------------------------------------------------
(* analyzeEmail: the tool-free analyzer.  Its model call is not raced      *)
(* against a timer, and every failure is rethrown to the caller.           *)

\* throw new Error(`Email analysis failed: ...`)
Throw(message, why) ==
    /\ thrown' = Some("Email analysis failed: " \o message)
    /\ pc' = "thrown"
    /\ cause' = why

\* Up to the await of anthropic.messages.create; the email is formatted
\* while the call's arguments are built.
AnalyzeEmailBegin ==
    /\ pc = "analyzeEmail"
    /\ simpleStart' = now
    /\ LET f == formatEmailForAnalysis(email)
       IN IF f.ok
          THEN /\ pc' = "awaitSimpleModel"
               /\ simpleModelCalls' = simpleModelCalls + 1
               /\ UNCHANGED <<thrown, cause>>
          ELSE /\ Throw(f.error, "simpleFormatError")
               /\ UNCHANGED simpleModelCalls
    /\ UNCHANGED <<toolVars, entry, email, now, startTime, loopVars, callStart, result,
                   modelCallLog, lastTurn, fallbackCalls>>

\* What analyzeEmail makes of the model's answer.
analyzeEmailResult(content, latency) ==
    IF Len(content) = 0
    THEN [ok |-> FALSE, error |-> "Cannot read properties of undefined"]
    ELSE IF content[1].type # "text"
    THEN [ok |-> FALSE, error |-> "Unexpected response format from Claude"]
    ELSE LET analysis == JSONParse(content[1].text)
         IN IF ~analysis.ok
            THEN [ok |-> FALSE, error |-> "Invalid JSON response from Claude"]
            ELSE [ok |-> TRUE,
                  value |-> Spread(analysis.value,
                       [metadata |-> [model |-> AGENT_MODEL,
                                      latency |-> latency,
                                      inputTokens |-> Usage.input_tokens,
                                      outputTokens |-> Usage.output_tokens]])]

\* The model answers d ms after the call.
SimpleModelAnswers ==
    \E d \in FallbackLatencies, content \in TextContents :
        /\ pc = "awaitSimpleModel"
        /\ now' = now + d
        /\ LET r == analyzeEmailResult(content, (now + d) - simpleStart)
           IN IF r.ok
              THEN Return(r.value, "simpleDone") /\ UNCHANGED thrown
              ELSE Throw(r.error, "simpleParseError") /\ UNCHANGED result
        /\ UNCHANGED <<toolVars, entry, email, startTime, loopVars, callStart,
                       modelCallLog, lastTurn, simpleVars>>

\* The model call rejects d ms after the call.
SimpleModelRejects ==
    \E d \in FallbackLatencies :
        /\ pc = "awaitSimpleModel"
        /\ now' = now + d
        /\ Throw("model call failed", "simpleModelError")
        /\ UNCHANGED <<toolVars, entry, email, startTime, loopVars, callStart, result,
                       modelCallLog, lastTurn, simpleVars>>

---------------------------------------------------------------------------

Next ==
    \/ Start
    \/ LoopExhausted
    \/ LoopOutOfTime
    \/ CallModel
    \/ ModelFinishes
    \/ ModelRequestsTools
    \/ ModelUnexpectedStop
    \/ ModelRejects
    \/ ModelCallTimeout
    \/ ToolReturns
    \/ ToolThrows
    \/ CatchOuter
    \/ AnalyzeEmailBegin
    \/ SimpleModelAnswers
    \/ SimpleModelRejects

Spec == Init /\ [][Next]_vars


\* The code's scheduling: synchronous steps run, timers fire, and a tool call
\* ends (a reputation lookup's HTTP client gives up after 3000 ms).  The
\* model service is under no obligation to answer.
FairSpec ==
    /\ Spec
    /\ WF_vars(Start)
    /\ WF_vars(LoopExhausted)
    /\ WF_vars(LoopOutOfTime)
    /\ WF_vars(CallModel)
    /\ WF_vars(ModelCallTimeout)
    /\ WF_vars(ToolReturns \/ ToolThrows)
    /\ WF_vars(CatchOuter)
    /\ WF_vars(AnalyzeEmailBegin)

---------------------------------------------------------------------------
(* Properties.                                                             *)

AgentInvocation == entry = "analyzeWithTools"
AgentReturned == AgentInvocation /\ pc = "returned"
Elapsed == now - startTime

Has(r, k) == k \in DOMAIN r

\* The log a returned record carries (empty when the field is undefined).
LogOf(r) == IF Has(r, "toolCalls") /\ r.toolCalls # Undefined
            THEN The(r.toolCalls) ELSE <<>>

\* The placeholder verdict of the degradation policy.
IsPlaceholder(r) ==
    /\ Has(r, "verdict") /\ r.verdict = "suspicious"
    /\ Has(r, "confidence") /\ r.confidence = 50
    /\ Has(r, "threats") /\ r.threats = <<>>
    /\ Has(r, "authentication")
    /\ r.authentication = [spf |-> "none", dkim |-> "none", dmarc |-> "none"]
    /\ Has(r, "reasoning") /\ Len(r.reasoning) > 0
    /\ r.reasoning[1] = "Analysis started but did not complete within time limit"

\* A turn the loop treats as finished.
FinishedTurn(msg) ==
    \/ msg.stop_reason \in {"end_turn", "max_tokens"}
    \/ msg.stop_reason = "tool_use" /\ FilterToolUse(msg.content) = <<>>

\* No text block, or text that is not valid JSON after fence stripping.
Unparseable(content) ==
    \/ FindTextBlock(content) = Undefined
    \/ ~JSONParse(StripFences(The(FindTextBlock(content)).text)).ok

\* The ids of the tool calls that returned in the turns fed back so far, in
\* order: the non-error tool_result blocks of the user turns.
RECURSIVE ReturnedIds(_)
ReturnedIds(msgs) ==
    IF msgs = <<>> THEN <<>>
    ELSE LET m == msgs[Len(msgs)]
             before == ReturnedIds(SubSeq(msgs, 1, Len(msgs) - 1))
             ok == IF m.role = "user" /\ m.content # "formatted email"
                   THEN SelectSeq(m.content, LAMBDA b : b.is_error = Undefined)
                   ELSE <<>>
         IN before \o [i \in 1..Len(ok) |-> ok[i].tool_use_id]

C2_VerdictAndConfidenceInRange ==
    AgentReturned =>
        LET r == The(result)
        IN /\ Has(r, "verdict") /\ r.verdict \in Verdicts
           /\ Has(r, "confidence") /\ r.confidence \in 0..100

C4_NoFinishedTurnYieldsPlaceholder ==
    (/\ AgentInvocation
     /\ pc # "loop"
     /\ \/ iterationCount = MAX_TOOL_CALLS
        \/ lastTurn.stop_reason \notin {"none", "end_turn", "max_tokens", "tool_use"})
    => /\ pc = "returned"
       /\ result # Undefined
       /\ IsPlaceholder(The(result))

C4_Witness ==
    /\ AgentReturned
    /\ iterationCount = MAX_TOOL_CALLS
    /\ Len(toolCalls) > 0
    /\ IsPlaceholder(The(result))

\* C5: a model call is started only with fewer than MAX_TOOL_CALLS iterations
\* completed and at most MAX_TOOL_LOOP_TIME_MS elapsed; with either ceiling
\* exceeded the loop returns the placeholder without another model call; so
\* the loop makes at most MAX_TOOL_CALLS model calls.
C5_CallsWithinCeilings ==
    /\ [](/\ \A i \in 1..Len(modelCallLog) :
               /\ modelCallLog[i].iteration < MAX_TOOL_CALLS
               /\ modelCallLog[i].elapsed <= MAX_TOOL_LOOP_TIME_MS
          /\ Len(modelCallLog) <= MAX_TOOL_CALLS)
    /\ [][(/\ pc = "loop"
           /\ \/ iterationCount >= MAX_TOOL_CALLS
              \/ Elapsed > MAX_TOOL_LOOP_TIME_MS)
          => /\ pc' = "returned"
             /\ IsPlaceholder(The(result'))
             /\ modelCallLog' = modelCallLog]_vars

C5_Witness ==
    /\ AgentReturned
    /\ Len(modelCallLog) = MAX_TOOL_CALLS
    /\ iterationCount = MAX_TOOL_CALLS

\* C6: if the per-call timer fires before the model answers, the invocation
\* returns the placeholder, whose tool log holds exactly the tool calls that
\* returned in earlier turns; on the first turn the record has no tool log
\* and carries the placeholder summary.
C6_TimeoutKeepsCompletedTools ==
    (AgentInvocation /\ cause = "modelTimeout") =>
        LET r == The(result)
            log == LogOf(r)
        IN /\ pc = "returned"
           /\ result # Undefined
           /\ IsPlaceholder(r)
           /\ Has(r, "toolCalls")
           /\ log = toolCalls
           /\ [i \in 1..Len(log) |-> log[i].id] = ReturnedIds(messages)
           /\ \A i \in 1..Len(log) : log[i].endTime <= callStart
           /\ (r.toolCalls = Undefined) = (ReturnedIds(messages) = <<>>)
           /\ Len(modelCallLog) = 1 =>
                 /\ r.toolCalls = Undefined
                 /\ r.summary = PLACEHOLDER_SUMMARY

C6_Witness ==
    /\ AgentReturned
    /\ cause = "modelTimeout"
    /\ Len(modelCallLog) = 2
    /\ Len(LogOf(The(result))) = 2

\* C7: on entering Degraded after a model-call failure, a model-call timeout
\* or an unparseable final turn, one tool-free fallback call is attempted if
\* elapsed + MIN_FALLBACK_TIME_MS does not exceed MAX_ANALYSIS_TIME_MS, and
\* otherwise the placeholder is returned without a further model call.
C7_FallbackWhenBudgetRemains ==
    (/\ AgentInvocation
     /\ pc \in {"returned", "thrown"}
     /\ cause \in {"modelError", "modelTimeout", "parseError"})
    => IF Elapsed + MIN_FALLBACK_TIME_MS <= MAX_ANALYSIS_TIME_MS
       THEN fallbackCalls = 1
       ELSE /\ fallbackCalls = 0
            /\ simpleModelCalls = 0
            /\ pc = "returned"
            /\ IsPlaceholder(The(result))

C9_ParseFailureLikeModelFailure ==
    (/\ AgentInvocation
     /\ \/ cause = "modelError"
        \/ FinishedTurn(lastTurn) /\ Unparseable(lastTurn.content))
    => /\ pc = "returned"
       /\ result # Undefined
       /\ IsPlaceholder(The(result))
       /\ result = Some([verdict |-> "suspicious",
                         confidence |-> 50,
                         threats |-> <<>>,
                         authentication |->
                             [spf |-> "none", dkim |-> "none", dmarc |-> "none"],
                         summary |-> PLACEHOLDER_SUMMARY,
                         reasoning |-> The(result).reasoning,
                         toolCalls |-> IF toolCalls = <<>> THEN Undefined
                                       ELSE Some(toolCalls),
                         metadata |-> [model |-> AGENT_MODEL,
                                       latency |-> Elapsed,
                                       inputTokens |-> 0,
                                       outputTokens |-> 0,
                                       toolExecutionTime |-> totalToolTime]])
       /\ fallbackCalls = 0

C9_Witness ==
    /\ AgentReturned
    /\ FinishedTurn(lastTurn)
    /\ Unparseable(lastTurn.content)
    /\ FindTextBlock(lastTurn.content) # Undefined
    /\ Len(toolCalls) > 0
    /\ IsPlaceholder(The(result))

\* C10: in every returned record the tool log holds at most MAX_TOOL_CALLS
\* entries, in non-decreasing order of start timestamp.
C10_ToolLogBoundedAndOrdered ==
    AgentReturned =>
        LET log == LogOf(The(result))
        IN /\ Len(log) <= MAX_TOOL_CALLS
           /\ \A i, j \in 1..Len(log) :
                 i < j => log[i].startTime <= log[j].startTime

---------------------------------------------------------------------------
(* Properties of the tool phase.                                           *)

\* The tool_result blocks built so far, in order: those of the user turns
\* already appended to the conversation, then those of the turn in progress.
RECURSIVE FedBackBlocks(_)
FedBackBlocks(msgs) ==
    IF msgs = <<>> THEN <<>>
    ELSE LET m == msgs[Len(msgs)]
         IN FedBackBlocks(SubSeq(msgs, 1, Len(msgs) - 1)) \o
            (IF m.role = "user" /\ m.content # "formatted email"
             THEN m.content ELSE <<>>)

ResultBlocks ==
    FedBackBlocks(messages) \o (IF pc = "execTools" THEN toolResults ELSE <<>>)

\* The log entries that carry call id `id`.
EntriesOf(id) == {i \in 1..Len(toolCalls) : toolCalls[i].id = id}

RECURSIVE SumDurations(_)
SumDurations(calls) ==
    IF calls = <<>> THEN 0
    ELSE calls[Len(calls)].duration
         + SumDurations(SubSeq(calls, 1, Len(calls) - 1))

\* The metadata the loop has accumulated when it builds a record from the
\* finished turn: the turn's model and usage for a parsed answer, the
\* placeholder's for an answer that does not parse.
LoopMetadata ==
    IF cause = "done"
    THEN Metadata(lastTurn.model, Elapsed, lastTurn.usage.input_tokens,
                  lastTurn.usage.output_tokens, totalToolTime)
    ELSE Metadata(AGENT_MODEL, Elapsed, 0, 0, totalToolTime)

\* A record was built from a finished model turn.
BuiltFromFinishedTurn == AgentReturned /\ cause \in {"done", "parseError"}

\* C38: in every record built from a finished model turn, toolCalls and
\* metadata are the values accumulated by the loop (toolCalls absent when
\* no tool ran), whatever keys the model's JSON contains.
C38_BookkeepingNotOverridden ==
    BuiltFromFinishedTurn =>
        /\ Has(The(result), "toolCalls")
        /\ The(result).toolCalls = ToolLogField(toolCalls)
        /\ toolCalls = <<>> <=> The(result).toolCalls = Undefined
        /\ Has(The(result), "metadata")
        /\ The(result).metadata = LoopMetadata

\* The model's JSON of the finished turn names toolCalls and metadata.
C38_Witness ==
    /\ BuiltFromFinishedTurn
    /\ cause = "done"
    /\ \E k \in 1..Len(lastTurn.content) :
          /\ lastTurn.content[k].type = "text"
          /\ JSONParse(StripFences(lastTurn.content[k].text)).ok
          /\ Has(JSONParse(StripFences(lastTurn.content[k].text)).value, "toolCalls")
          /\ Has(JSONParse(StripFences(lastTurn.content[k].text)).value, "metadata")
    /\ Len(toolCalls) > 0
    /\ The(result).verdict = "safe"

\* C39: in every record returned by the loop (done or placeholder),
\* metadata.toolExecutionTime is the sum of the durations of the entries of
\* its tool log, and 0 when the log is absent.
C39_ToolTimeIsSumOfDurations ==
    AgentReturned =>
        /\ The(result).metadata.toolExecutionTime = SumDurations(LogOf(The(result)))
        /\ The(result).toolCalls = Undefined
              => The(result).metadata.toolExecutionTime = 0

C39_Witness ==
    /\ AgentReturned
    /\ Len(LogOf(The(result))) = 2
    /\ LogOf(The(result))[1].duration > 0
    /\ LogOf(The(result))[2].duration > 0
    /\ IsPlaceholder(The(result))

\* C11: every tool call that was dispatched, whether it succeeded, returned
\* a failure or threw, has exactly one log entry with start and end
\* timestamps and one outcome, and the cumulative tool-execution time is
\* the sum of the logged durations.
C11_EveryDispatchedCallLoggedOnce ==
    AgentInvocation =>
        /\ \A k \in 1..Len(ResultBlocks) :
              LET at == EntriesOf(ResultBlocks[k].tool_use_id)
              IN /\ Cardinality(at) = 1
                 /\ \A i \in at :
                       /\ toolCalls[i].startTime <= toolCalls[i].endTime
                       /\ toolCalls[i].duration
                            = toolCalls[i].endTime - toolCalls[i].startTime
                       /\ toolCalls[i].result.success \in BOOLEAN
        /\ totalToolTime = SumDurations(toolCalls)

\* The tool_use block the for loop is executing.
CurrentToolUse == FilterToolUse(response.content)[blockIdx]

\* C12: a tool call that throws (executeTool's 'Unknown tool' error) does
\* not end the invocation: an error result carrying the thrown message is
\* recorded for that call id, and the loop goes on to the next call of the
\* turn or, after the last one, appends both turns and is back at the
\* budget check that precedes the next model call.
C12_ThrowDoesNotAbort ==
    [][(AgentInvocation /\ pc = "execTools"
        /\ CurrentToolUse.name \notin ToolNames)
       => LET last == toolResults'[Len(toolResults')]
          IN /\ result' = Undefined
             /\ thrown' = Undefined
             /\ Len(toolResults') = Len(toolResults) + 1
             /\ last.type = "tool_result"
             /\ last.tool_use_id = CurrentToolUse.id
             /\ last.is_error = Some(TRUE)
             /\ last.content = JSONStringify(
                    Some([error |-> "Unknown tool: " \o CurrentToolUse.name]))
             /\ IF blockIdx < Len(FilterToolUse(response.content))
                THEN /\ pc' = "execTools"
                     /\ blockIdx' = blockIdx + 1
                     /\ response' = response
                ELSE /\ pc' = "loop"
                     /\ iterationCount' = iterationCount + 1
                     /\ messages' = messages \o
                            <<[role |-> "assistant",
                               content |-> response.content],
                              [role |-> "user", content |-> toolResults']>>
      ]_vars

\* A model call was made with a history whose last user turn holds the
\* error result of a thrown call followed by the result of a later call of
\* the same turn.
C12_Witness ==
    /\ AgentInvocation
    /\ \E k \in 1..Len(modelCallLog) :
          LET ms == modelCallLog[k].messages
          IN /\ Len(ms) >= 3
             /\ ms[Len(ms)].role = "user"
             /\ Len(ms[Len(ms)].content) = 2
             /\ ms[Len(ms)].content[1].is_error = Some(TRUE)
             /\ ms[Len(ms)].content[2].is_error = Undefined

\* C13: for every tool call that returned a failure, the tool_result block
\* built for that call id carries the failure's error string.
C13_FailureStringSentToModel ==
    AgentInvocation =>
        \A i \in 1..Len(toolCalls) :
            toolCalls[i].result.success = FALSE =>
                \E k \in 1..Len(ResultBlocks) :
                    /\ ResultBlocks[k].tool_use_id = toolCalls[i].id
                    /\ ResultBlocks[k].content # Undefined
                    /\ Has(The(ResultBlocks[k].content).json, "error")
                    /\ Some(The(ResultBlocks[k].content).json.error)
                         = toolCalls[i].result.error

\* The call ids of a sequence of tool_use or tool_result blocks, in order.
UseIds(blocks) == [i \in 1..Len(blocks) |-> blocks[i].id]
ResultIds(blocks) == [i \in 1..Len(blocks) |-> blocks[i].tool_use_id]

\* A history in which every tool-requesting assistant turn is followed by
\* one user turn holding exactly one result per requested call id, in the
\* order requested, and which ends with a user turn.
Resolved(ms) ==
    /\ Len(ms) >= 1
    /\ ms[Len(ms)].role = "user"
    /\ \A j \in 1..Len(ms) :
          ms[j].role = "assistant" =>
              /\ j < Len(ms)
              /\ FilterToolUse(ms[j].content) # <<>>
              /\ ms[j + 1].role = "user"
              /\ ResultIds(ms[j + 1].content)
                   = UseIds(FilterToolUse(ms[j].content))

\* C14: every model call is made with a history in which all tool calls
\* requested so far are resolved (the model call of turn N+1 sees turn N's
\* assistant turn followed by one user turn with one result per requested
\* id, in request order); while a turn's calls are executing no model call
\* is pending and the results so far are those of the first requested
\* calls; the log holds the returned calls in request order.
C14_TurnResolvedBeforeNextModelCall ==
    AgentInvocation =>
        /\ \A k \in 1..Len(modelCallLog) :
              /\ Resolved(modelCallLog[k].messages)
              /\ Len(modelCallLog[k].messages)
                   = 1 + 2 * modelCallLog[k].iteration
        /\ pc = "awaitModel" =>
              messages = modelCallLog[Len(modelCallLog)].messages
        /\ pc = "execTools" =>
              /\ Len(toolResults) = blockIdx - 1
              /\ ResultIds(toolResults)
                   = SubSeq(UseIds(FilterToolUse(response.content)),
                            1, blockIdx - 1)
        /\ [i \in 1..Len(toolCalls) |-> toolCalls[i].id]
             = ResultIds(SelectSeq(ResultBlocks,
                                   LAMBDA b : b.is_error = Undefined))

\* A model call pending for turn N+1 after a turn N that requested
\* MaxBlocks calls.
C14_Witness ==
    /\ AgentInvocation
    /\ pc = "awaitModel"
    /\ Len(messages) >= 3
    /\ Len(messages[Len(messages)].content) = MaxBlocks
    /\ Len(toolCalls) >= 1

\* The caller-visible timeout, in milliseconds.
CallerTimeoutMs == maxDuration * 1000

\* C15: the wall-clock time between the start of analyzeWithTools and its
\* return never exceeds the caller-visible timeout.
C15_ReturnsWithinCallerTimeout ==
    AgentReturned => Elapsed <= CallerTimeoutMs

---------------------------------------------------------------------------
(* The tools.  One dispatch executeTool(name, input, email) on its own:    *)
(* the three local tools, and the two reputation tools with the process    *)
(* environment, the cache and the provider they talk to.  A reputation     *)
(* tool suspends at its cache read and at its HTTP request; the steps      *)
(* between two awaits are one action.                                      *)

\* Largest number of vendors in a provider's report on a URL.
MaxVendors == 6

\* Largest number of dot-separated groups of an ip argument.
MaxGroups == 4

\* JavaScript values the model may put into an argument object: undefined,
\* a (truthy) number, a string with its content, an object with the types
\* of its values.
JsUndefined == [t |-> "undefined", v |-> <<>>]
JsNumber == [t |-> "number", v |-> <<>>]
JsString(v) == [t |-> "string", v |-> v]
JsObject(v) == [t |-> "object", v |-> v]

\* a || b, for the values above (the strings of local-tool arguments are
\* non-empty).
Or(a, b) == IF a.t = "undefined" THEN b ELSE a

\* The fields of the EmailInput the dispatcher falls back to.
EmailBody == JsString(<<"body">>)
EmailHeaders == JsObject(<<"string">>)
EmailFrom == JsString(<<"from">>)

\* URL strings, as tokens; ip strings, as their dot-separated groups of
\* characters ("256.1.1.1" is <<<<"2","5","6">>, <<"1">>, <<"1">>, <<"1">>>>).
UrlStrings ==
    {<<"https:", "//", "evil.example", "/login">>,
     <<"http:", "//", "shop.example">>,
     <<"evil.example">>, <<"https:", "//">>, <<>>}

IpGroups ==
    {<<>>, <<"7">>, <<"2", "5", "5">>, <<"2", "5", "6">>,
     <<"1", "0", "0", "0">>, <<"1", "a">>}

IpStrings == UNION {[1..n -> IpGroups] : n \in 1..MaxGroups}

\* new URL(s) does not throw: an absolute URL with a scheme and a host.
ParsesAsURL(x) ==
    /\ x.t = "string"
    /\ Len(x.v) >= 3
    /\ x.v[1] \in {"https:", "http:"}
    /\ x.v[2] = "//"

\* String(x).split('.'): a value that is no string reads as its type name.
ToGroups(x) == IF x.t = "string" THEN x.v ELSE <<<<x.t>>>>

DigitChars == <<"0", "1", "2", "3", "4", "5", "6", "7", "8", "9">>
IsDigit(c) == \E i \in 1..Len(DigitChars) : DigitChars[i] = c
DigitValue(c) == (CHOOSE i \in 1..Len(DigitChars) : DigitChars[i] = c) - 1

\* /^(\d{1,3}\.){3}\d{1,3}$/.test(x)
ipRegexTest(x) ==
    LET g == ToGroups(x)
    IN /\ Len(g) = 4
       /\ \A i \in 1..4 :
             /\ Len(g[i]) >= 1
             /\ Len(g[i]) <= 3
             /\ \A k \in 1..Len(g[i]) : IsDigit(g[i][k])

\* parseInt(octet, 10) of a group of digits.
RECURSIVE parseInt(_)
parseInt(octet) ==
    IF octet = <<>> THEN 0
    ELSE 10 * parseInt(SubSeq(octet, 1, Len(octet) - 1))
         + DigitValue(octet[Len(octet)])

\* A range check that lets 256 through.
OctetOutOfRange_Inclusive(num) == num < 0 \/ num > 256

\* num < 0 || num > 255
OctetOutOfRange(num) == num < 0 \/ num > 255

\* octets.some(...)
invalidOctet(x) ==
    \E i \in 1..Len(ToGroups(x)) : OctetOutOfRange(parseInt(ToGroups(x)[i]))

\* process.env and the Upstash configuration.
Envs ==
    [VIRUSTOTAL_API_KEY : BOOLEAN, ABUSEIPDB_API_KEY : BOOLEAN,
     UPSTASH_REDIS : BOOLEAN]

\* A credential check that asks whether any provider is configured.
ApiKeyConfigured_AnyProvider(e, name) ==
    e.VIRUSTOTAL_API_KEY \/ e.ABUSEIPDB_API_KEY

\* process.env.VIRUSTOTAL_API_KEY / process.env.ABUSEIPDB_API_KEY is set.
ApiKeyConfigured(e, name) ==
    IF name = "check_url_reputation"
    THEN e.VIRUSTOTAL_API_KEY ELSE e.ABUSEIPDB_API_KEY

\* new ThreatIntelService(): the provider's HTTP client exists when its key
\* is set, the cache client when Upstash is configured.  No request is made.
HasClient(e, name) ==
    IF name = "check_url_reputation"
    THEN e.VIRUSTOTAL_API_KEY ELSE e.ABUSEIPDB_API_KEY
HasRedis(e) == e.UPSTASH_REDIS

\* The argument a reputation tool reads.
ReputationArg(name, input) ==
    IF name = "check_url_reputation" THEN input.url ELSE input.ip

ValidArgument(name, input) ==
    IF name = "check_url_reputation"
    THEN ParsesAsURL(input.url)
    ELSE ipRegexTest(input.ip) /\ ~invalidOctet(input.ip)

\* `${x}` of a template literal: the text of a url or ip argument.
RECURSIVE Concat(_)
Concat(parts) ==
    IF parts = <<>> THEN "" ELSE Head(parts) \o Concat(Tail(parts))

RECURSIVE JoinDots(_)
JoinDots(groups) ==
    IF Len(groups) = 1 THEN Concat(Head(groups))
    ELSE Concat(Head(groups)) \o "." \o JoinDots(Tail(groups))

UrlText(x) == IF x.t = "string" THEN Concat(x.v)
              ELSE IF x.t = "number" THEN "42" ELSE x.t
IpText(x) == IF x.t = "string" THEN JoinDots(x.v)
             ELSE IF x.t = "number" THEN "42" ELSE x.t

InvalidArgumentError(name, input) ==
    IF name = "check_url_reputation"
    THEN "Invalid URL format: " \o UrlText(input.url)
    ELSE "Invalid IP address format: " \o IpText(input.ip)

\* What VirusTotal reports on a URL: last_analysis_stats and the vendors of
\* last_analysis_results with their categories, in the order of the keys.
VendorName(i) == <<"vendor", i>>
VtReports ==
    {[malicious |-> m, suspicious |-> 0, harmless |-> h, undetected |-> 0,
      results |-> r] :
        m \in {0, 2}, h \in {0, 3},
        r \in UNION {[1..n -> {"malicious", "harmless"}] : n \in 0..MaxVendors}}

\* What AbuseIPDB reports on an address.
Scores == 0..100
AbuseReports == {[abuseConfidenceScore |-> s, totalReports |-> 12] : s \in Scores}

\* malicious / totalScans, kept as a fraction.
Fraction(n, d) == [num |-> n, den |-> d]

\* Object.keys(results).filter(vendor => category === 'malicious')
RECURSIVE MaliciousVendors(_)
MaliciousVendors(results) ==
    IF results = <<>> THEN <<>>
    ELSE MaliciousVendors(SubSeq(results, 1, Len(results) - 1)) \o
         (IF results[Len(results)] = "malicious"
          THEN <<VendorName(Len(results))>> ELSE <<>>)

\* The UrlReputationResult ThreatIntelService.checkUrlReputation builds.
UrlReputationResult(url, report) ==
    LET totalScans == report.malicious + report.suspicious
                      + report.harmless + report.undetected
    IN [url |-> url,
        malicious |-> report.malicious > 0,
        maliciousCount |-> report.malicious,
        totalScans |-> totalScans,
        detectedBy |-> MaliciousVendors(report.results),
        confidenceScore |-> IF totalScans > 0
                            THEN Fraction(report.malicious, totalScans)
                            ELSE Fraction(0, 1)]

\* The IpReputationResult ThreatIntelService.checkIpReputation builds.
IpReputationResult(ip, report) ==
    [ip |-> ip,
     malicious |-> report.abuseConfidenceScore >= 50,
     abuseConfidenceScore |-> report.abuseConfidenceScore,
     totalReports |-> report.totalReports]

ProviderReports(name) ==
    IF name = "check_url_reputation" THEN VtReports ELSE AbuseReports

ReputationResult(name, arg, report) ==
    IF name = "check_url_reputation"
    THEN UrlReputationResult(arg, report)
    ELSE IpReputationResult(arg, report)

\* array.slice(0, n)
Slice(seq, n) == SubSeq(seq, 1, IF Len(seq) < n THEN Len(seq) ELSE n)

\* A tool that passes the whole vendor list on.
UrlToolData_Untruncated(r) ==
    [url |-> r.url, malicious |-> r.malicious,
     malicious_count |-> r.maliciousCount, total_scans |-> r.totalScans,
     detected_by |-> r.detectedBy,
     confidence_score |-> r.confidenceScore]

\* The data of a successful check_url_reputation.
UrlToolData(r) ==
    [url |-> r.url, malicious |-> r.malicious,
     malicious_count |-> r.maliciousCount, total_scans |-> r.totalScans,
     detected_by |-> Slice(r.detectedBy, 5),
     confidence_score |-> r.confidenceScore]

\* Tiers with strict comparisons.
riskLevel_Strict(score) ==
    IF score > 75 THEN "critical"
    ELSE IF score > 50 THEN "high"
    ELSE IF score > 25 THEN "medium"
    ELSE "low"

\* Determine risk level from confidence score.
riskLevel(score) ==
    IF score >= 75 THEN "critical"
    ELSE IF score >= 50 THEN "high"
    ELSE IF score >= 25 THEN "medium"
    ELSE "low"

\* The data of a successful check_ip_reputation.
IpToolData(r) ==
    [ip |-> r.ip, malicious |-> r.malicious,
     abuse_confidence_score |-> r.abuseConfidenceScore,
     total_reports |-> r.totalReports,
     risk_level |-> riskLevel(r.abuseConfidenceScore)]

\* The ToolResult of a reputation tool whose lookup yielded r; the object
\* literal has no cached property, whether r came from the cache or not.
ReputationSuccess(name, r) ==
    [success |-> TRUE,
     data |-> Some(IF name = "check_url_reputation"
                   THEN UrlToolData(r) ELSE IpToolData(r)),
     error |-> Undefined, source |-> ReputationSource(name),
     cached |-> Undefined]

\* The local tools: the try block throws a TypeError when an argument it
\* calls a string method on is no string; the catch returns defaults.
extractUrls(input) ==
    IF input.email_body.t = "string"
       /\ input.email_html.t \in {"undefined", "string"}
    THEN [success |-> TRUE, data |-> Some([tool |-> "extract_urls"]),
          error |-> Undefined]
    ELSE [success |-> FALSE,
          data |-> Some([urls |-> <<>>, total_found |-> 0,
                         suspicious_count |-> 0]),
          error |-> Undefined]

checkAuthentication(input) ==
    IF input.headers.t = "object"
       /\ \A k \in 1..Len(input.headers.v) : input.headers.v[k] = "string"
    THEN [success |-> TRUE, data |-> Some([tool |-> "check_authentication"]),
          error |-> Undefined]
    ELSE [success |-> FALSE,
          data |-> Some([spf |-> "none", dkim |-> "none", dmarc |-> "none"]),
          error |-> Undefined]

analyzeSender(input) ==
    IF input.from.t = "string"
    THEN [success |-> TRUE, data |-> Some([tool |-> "analyze_sender"]),
          error |-> Undefined]
    ELSE [success |-> FALSE,
          data |-> Some([email |-> input.from, domain |-> "unknown",
                         is_suspicious |-> FALSE,
                         spoofing_indicators |-> <<>>,
                         free_email_provider |-> FALSE]),
          error |-> Undefined]

\* The local cases of executeTool's switch: arguments the model left out
\* are taken from the email, and source: 'local' is added to the result.
executeLocalTool(name, input) ==
    LET r == IF name = "extract_urls"
             THEN extractUrls([email_body |-> Or(input.email_body, EmailBody),
                               email_html |-> input.email_html])
             ELSE IF name = "check_authentication"
             THEN checkAuthentication(
                      [headers |-> Or(input.headers, EmailHeaders)])
             ELSE analyzeSender([from |-> Or(input.from, EmailFrom)])
    IN [success |-> r.success, data |-> r.data, error |-> r.error,
        source |-> "local"]

\* Argument objects: every field the five tools read, undefined when the
\* model left it out.
NoInput ==
    [email_body |-> JsUndefined, email_html |-> JsUndefined,
     headers |-> JsUndefined, from |-> JsUndefined,
     url |-> JsUndefined, ip |-> JsUndefined]

TextArgs == {JsUndefined, JsNumber, JsString(<<"text">>)}

Inputs(name) ==
    IF name = "extract_urls"
    THEN {[NoInput EXCEPT !.email_body = b, !.email_html = h] :
             b \in TextArgs, h \in TextArgs}
    ELSE IF name = "check_authentication"
    THEN {[NoInput EXCEPT !.headers = h] :
             h \in {JsUndefined, JsObject(<<"string">>),
                    JsObject(<<"string", "number">>), JsNumber}}
    ELSE IF name = "analyze_sender"
    THEN {[NoInput EXCEPT !.from = f] : f \in TextArgs}
    ELSE IF name = "check_url_reputation"
    THEN {[NoInput EXCEPT !.url = u] :
             u \in {JsUndefined, JsNumber} \cup {JsString(v) : v \in UrlStrings}}
    ELSE IF name = "check_ip_reputation"
    THEN {[NoInput EXCEPT !.ip = a] :
             a \in {JsUndefined, JsNumber} \cup {JsString(v) : v \in IpStrings}}
    ELSE {NoInput}

DispatchedNames == ToolNames \cup {"lookup_whois"}

\* The reports earlier lookups may have got: a clean one and one with every
\* vendor flagging the URL; the lowest, a middle and the highest score.
EarlierReports(name) ==
    IF name = "check_url_reputation"
    THEN {[malicious |-> 0, suspicious |-> 0, harmless |-> 3, undetected |-> 0,
           results |-> [i \in 1..MaxVendors |-> "harmless"]],
          [malicious |-> 2, suspicious |-> 0, harmless |-> 3, undetected |-> 0,
           results |-> [i \in 1..MaxVendors |-> "malicious"]]}
    ELSE {[abuseConfidenceScore |-> s, totalReports |-> 12] : s \in {0, 50, 100}}

\* What the cache may hold under the key of this call when it starts:
\* nothing, or the result an earlier lookup of the same argument stored.
CachedBefore(e, name, input) ==
    IF HasRedis(e) /\ name \in ReputationToolNames /\ ValidArgument(name, input)
    THEN {Undefined} \cup
         {JSONStringify(Some(ReputationResult(name, ReputationArg(name, input),
                                              report))) :
             report \in EarlierReports(name)}
    ELSE {Undefined}

ToolCallState(e, name, input, cached) ==
    [pc |-> "called", env |-> e, name |-> name, input |-> input,
     cache |-> cached, cacheOps |-> <<>>, providerCalls |-> 0,
     lookup |-> Undefined, outcome |-> Undefined, thrown |-> Undefined]

ToolInit ==
    /\ entry = "executeTool"
    /\ email = [receivedAtValid |-> TRUE]
    /\ pc = "executeTool"
    /\ now \in StartClocks
    /\ startTime = now
    /\ iterationCount = 0
    /\ toolCalls = <<>>
    /\ totalToolTime = 0
    /\ messages = <<>>
    /\ response = NoTurn
    /\ blockIdx = 0
    /\ toolResults = <<>>
    /\ callStart = now
    /\ result = Undefined
    /\ thrown = Undefined
    /\ cause = "none"
    /\ modelCallLog = <<>>
    /\ lastTurn = NoTurn
    /\ simpleStart = now
    /\ fallbackCalls = 0
    /\ simpleModelCalls = 0
    /\ store = NoStore
    /\ invocations = <<>>
    /\ \E e \in Envs, name \in DispatchedNames :
          \E input \in Inputs(name) :
             \E cached \in CachedBefore(e, name, input) :
                tool = ToolCallState(e, name, input, cached)

agentVars ==
    <<entry, email, pc, now, startTime, iterationCount, toolCalls,
      totalToolTime, messages, response, blockIdx, toolResults, callStart,
      result, thrown, cause, modelCallLog, lastTurn, simpleStart,
      fallbackCalls, simpleModelCalls>>

\* return <ToolResult>
ToolDone(o) == [tool EXCEPT !.pc = "done", !.outcome = Some(o)]

\* A local tool: synchronous, no I/O.
DispatchLocal ==
    /\ tool.pc = "called"
    /\ tool.name \in LocalToolNames
    /\ tool' = ToolDone(executeLocalTool(tool.name, tool.input))
    /\ UNCHANGED <<agentVars, sharedVars>>

\* default: throw new Error(`Unknown tool: ${name}`)
DispatchUnknown ==
    /\ tool.pc = "called"
    /\ tool.name \notin ToolNames
    /\ tool' = [tool EXCEPT !.pc = "done",
                            !.thrown = Some("Unknown tool: " \o tool.name)]
    /\ UNCHANGED <<agentVars, sharedVars>>

\* A reputation tool up to its first await: the service is constructed,
\* then the API key and the argument are checked; the lookup starts with
\* the cache read when there is a cache, with the HTTP request otherwise.
DispatchReputation ==
    /\ tool.pc = "called"
    /\ tool.name \in ReputationToolNames
    /\ tool' =
         IF ~ApiKeyConfigured(tool.env, tool.name)
         THEN ToolDone(ToolFailure(KeyNotConfigured(tool.name),
                                   ReputationSource(tool.name)))
         ELSE IF ~ValidArgument(tool.name, tool.input)
         THEN ToolDone(ToolFailure(InvalidArgumentError(tool.name, tool.input),
                                   ReputationSource(tool.name)))
         ELSE IF ~HasClient(tool.env, tool.name)
         THEN \* if (!this.virusTotalClient) return null
              ToolDone(ToolFailure(ProviderUnavailable(tool.name),
                                   ReputationSource(tool.name)))
         ELSE IF HasRedis(tool.env)
         THEN [tool EXCEPT !.pc = "cacheRead",
                           !.cacheOps = Append(@, "get")]
         ELSE [tool EXCEPT !.pc = "provider", !.providerCalls = @ + 1]
    /\ UNCHANGED <<agentVars, sharedVars>>

\* redis.get finds the key: the cached result is the lookup's result.
CacheHit ==
    /\ tool.pc = "cacheRead"
    /\ tool.cache # Undefined
    /\ LET cached == The(tool.cache).json
       IN tool' = [ToolDone(ReputationSuccess(tool.name, cached))
                      EXCEPT !.lookup = Some(cached)]
    /\ UNCHANGED <<agentVars, sharedVars>>

\* redis.get finds nothing, or rejects (caught and logged): the HTTP
\* request is made.
CacheMiss ==
    /\ tool.pc = "cacheRead"
    /\ tool.cache = Undefined
    /\ tool' = [tool EXCEPT !.pc = "provider", !.providerCalls = @ + 1]
    /\ UNCHANGED <<agentVars, sharedVars>>

CacheReadFails ==
    /\ tool.pc = "cacheRead"
    /\ tool' = [tool EXCEPT !.pc = "provider", !.providerCalls = @ + 1]
    /\ UNCHANGED <<agentVars, sharedVars>>

\* The provider answers with a report that passes validation: the result
\* is built, written to the cache when there is one (a rejected write is
\* caught and logged), and returned.
ProviderAnswers ==
    /\ tool.pc = "provider"
    /\ \E report \in ProviderReports(tool.name), written \in BOOLEAN :
          LET r == ReputationResult(tool.name,
                                    ReputationArg(tool.name, tool.input),
                                    report)
              done == [ToolDone(ReputationSuccess(tool.name, r))
                          EXCEPT !.lookup = Some(r)]
          IN IF HasRedis(tool.env)
             THEN tool' = [done EXCEPT
                              !.cacheOps = Append(@, "setex"),
                              !.cache = IF written
                                        THEN JSONStringify(Some(r)) ELSE @]
             ELSE /\ written = FALSE
                  /\ tool' = done
    /\ UNCHANGED <<agentVars, sharedVars>>

\* A failed request whose failure is written to the cache.
ProviderFails_CachesFailure ==
    /\ tool.pc = "provider"
    /\ tool' = [ToolDone(ToolFailure(ProviderUnavailable(tool.name),
                                     ReputationSource(tool.name)))
                   EXCEPT !.cacheOps = Append(@, "setex"),
                          !.cache = Undefined]
    /\ UNCHANGED <<agentVars, sharedVars>>

\* The request fails, times out, or the answer does not pass validation:
\* the lookup yields null and nothing is written.
ProviderFails ==
    /\ tool.pc = "provider"
    /\ tool' = ToolDone(ToolFailure(ProviderUnavailable(tool.name),
                                    ReputationSource(tool.name)))
    /\ UNCHANGED <<agentVars, sharedVars>>

\* The provider call of the lookup ends in this step without a result.
ProviderCallFails ==
    tool.pc = "provider" /\ tool'.pc = "done" /\ tool'.lookup = Undefined

\* The provider call of the lookup ends in this step with a valid answer.
ProviderCallAnswers == tool.pc = "provider" /\ tool'.lookup # Undefined

\* C40: a reputation lookup whose provider call fails writes nothing to the
\* cache (no cache operation is issued and the cached value stays), and a
\* lookup that the provider answered is returned as a success whether or
\* not the cache read before it or the cache write after it failed.
C40_CacheNeverDecidesOutcome ==
    [][/\ ProviderCallFails
            => /\ tool'.cache = tool.cache
               /\ tool'.cacheOps = tool.cacheOps
               /\ ~The(tool'.outcome).success
       /\ ProviderCallAnswers
            => /\ tool'.pc = "done"
               /\ The(tool'.outcome).success
               /\ The(tool'.outcome).data # Undefined]_vars

\* The provider answered after the cache read had failed (a value was
\* cached, yet the provider was asked) and the cache write failed too (the
\* cached value is not the new result): the lookup is a success.
C40_Witness ==
    /\ entry = "executeTool"
    /\ tool.pc = "done"
    /\ tool.providerCalls = 1
    /\ tool.cacheOps = <<"get", "setex">>
    /\ tool.cache # Undefined
    /\ tool.cache # JSONStringify(tool.lookup)
    /\ tool.lookup # Undefined
    /\ The(tool.outcome).success

ToolNext ==
    \/ DispatchLocal
    \/ DispatchUnknown
    \/ DispatchReputation
    \/ CacheHit
    \/ CacheMiss
    \/ CacheReadFails
    \/ ProviderAnswers
    \/ ProviderFails

ToolSpec == ToolInit /\ [][ToolNext]_vars

---------------------------------------------------------------------------
(* Properties of the tools.                                                *)

ToolDispatch == entry = "executeTool"
ToolReturned == ToolDispatch /\ tool.pc = "done" /\ tool.outcome # Undefined

\* C16: every ToolOutcome a tool returns is well formed: success = true
\* comes with a data payload, success = false with an error string.
C16_OutcomeWellFormed ==
    ToolReturned =>
        LET o == The(tool.outcome)
        IN /\ o.success => o.data # Undefined
           /\ ~o.success => o.error # Undefined

\* A reputation tool is dispatched while its credential is not set.
CredentialAbsent ==
    /\ ToolDispatch
    /\ \/ tool.name = "check_url_reputation" /\ ~tool.env.VIRUSTOTAL_API_KEY
       \/ tool.name = "check_ip_reputation" /\ ~tool.env.ABUSEIPDB_API_KEY

\* C17: a reputation tool whose credential is absent returns at once
\* success = false with the message that names the missing credential, and
\* makes no provider call and no cache access.
C17_NoCredentialRefusedWithoutIO ==
    CredentialAbsent =>
        /\ tool.providerCalls = 0
        /\ tool.cacheOps = <<>>
        /\ tool.pc \in {"called", "done"}
        /\ tool.pc = "done" =>
              /\ tool.outcome # Undefined
              /\ The(tool.outcome).success = FALSE
              /\ The(tool.outcome).data = Undefined
              /\ The(tool.outcome).error
                   = Some(IF tool.name = "check_url_reputation"
                          THEN "VirusTotal API key not configured. Tool unavailable."
                          ELSE "AbuseIPDB API key not configured. Tool unavailable.")

\* The tool returned without its credential although the cache holds a
\* result for a well-formed argument.
C17_Witness ==
    /\ CredentialAbsent
    /\ tool.pc = "done"
    /\ tool.cache # Undefined
    /\ tool.env.UPSTASH_REDIS

\* Four dot-separated groups of 1-3 digits, each of value 0..255.
IsDigitGroup(g) ==
    Len(g) >= 1 /\ Len(g) <= 3 /\ \A k \in 1..Len(g) : IsDigit(g[k])
FourDigitGroups(v) == Len(v) = 4 /\ \A i \in 1..4 : IsDigitGroup(v[i])
WellFormedIPv4(v) ==
    FourDigitGroups(v) /\ \A i \in 1..4 : parseInt(v[i]) <= 255

\* check_ip_reputation is dispatched with a string that is not four groups
\* of 1-3 digits, or that has an octet outside 0-255.
MalformedIpCall ==
    /\ ToolDispatch
    /\ tool.name = "check_ip_reputation"
    /\ tool.input.ip.t = "string"
    /\ ~WellFormedIPv4(tool.input.ip.v)

\* The call is refused as a validation failure, without a provider call.
RefusedAsInvalidIp ==
    /\ tool.providerCalls = 0
    /\ tool.pc \in {"called", "done"}
    /\ tool.pc = "done" =>
          /\ tool.outcome # Undefined
          /\ The(tool.outcome).success = FALSE
          /\ The(tool.outcome).error
               = Some("Invalid IP address format: " \o IpText(tool.input.ip))

\* C18 (as stated): for every malformed ip string check_ip_reputation
\* returns the 'Invalid IP address format' failure without a provider call.
C18_MalformedIpIsValidationFailure ==
    MalformedIpCall => RefusedAsInvalidIp

\* C18 (amended): with ABUSEIPDB_API_KEY set, for every malformed ip string
\* check_ip_reputation returns the 'Invalid IP address format' failure
\* without a provider call.
C18_MalformedIpRefusedWhenConfigured ==
    (MalformedIpCall /\ tool.env.ABUSEIPDB_API_KEY) => RefusedAsInvalidIp

\* A dotted quad of digit groups with an octet above 255 was refused by a
\* configured tool.
C18_Witness ==
    /\ MalformedIpCall
    /\ tool.env.ABUSEIPDB_API_KEY
    /\ FourDigitGroups(tool.input.ip.v)
    /\ tool.pc = "done"

\* C19: for every abuse-confidence score s in 0..100 of a successful
\* check_ip_reputation, risk_level is 'critical' if s >= 75, 'high' if
\* 50 <= s < 75, 'medium' if 25 <= s < 50 and 'low' otherwise, malicious is
\* s >= 50, and so malicious holds exactly for 'high' and 'critical'.
C19_RiskTierFromScore ==
    (ToolReturned /\ tool.name = "check_ip_reputation"
     /\ The(tool.outcome).success) =>
        LET d == The(The(tool.outcome).data)
            s == d.abuse_confidence_score
        IN s \in 0..100 =>
              /\ s >= 75 => d.risk_level = "critical"
              /\ (s >= 50 /\ s < 75) => d.risk_level = "high"
              /\ (s >= 25 /\ s < 50) => d.risk_level = "medium"
              /\ s < 25 => d.risk_level = "low"
              /\ d.malicious = (s >= 50)
              /\ d.malicious <=> d.risk_level \in {"high", "critical"}

\* A lookup that went to the provider yielded the score 75.
C19_Witness ==
    /\ ToolReturned
    /\ tool.name = "check_ip_reputation"
    /\ The(tool.outcome).success
    /\ tool.providerCalls = 1
    /\ The(The(tool.outcome).data).abuse_confidence_score = 75
    /\ The(The(tool.outcome).data).risk_level = "critical"

\* C20: in every successful check_url_reputation result malicious is true
\* exactly when the flagged-vendor count is greater than zero, which is
\* when the ratio is greater than zero, and detected_by is the first 5
\* entries (all, if fewer) of the vendor list the lookup yielded.
C20_MaliciousFlagAndVendorCap ==
    (ToolReturned /\ tool.name = "check_url_reputation"
     /\ The(tool.outcome).success) =>
        LET d == The(The(tool.outcome).data)
            yielded == The(tool.lookup).detectedBy
        IN /\ d.malicious <=> d.malicious_count > 0
           /\ d.malicious <=> (d.confidence_score.num > 0
                               /\ d.confidence_score.den > 0)
           /\ Len(d.detected_by) <= 5
           /\ Len(d.detected_by) <= Len(yielded)
           /\ Len(yielded) <= 5 => d.detected_by = yielded
           /\ \A i \in 1..Len(d.detected_by) : d.detected_by[i] = yielded[i]
           /\ Len(yielded) > 5 => Len(d.detected_by) = 5

\* A malicious URL whose lookup yielded more than 5 flagging vendors.
C20_Witness ==
    /\ ToolReturned
    /\ tool.name = "check_url_reputation"
    /\ The(tool.outcome).success
    /\ The(The(tool.outcome).data).malicious
    /\ Len(The(tool.lookup).detectedBy) > 5
    /\ Len(The(The(tool.outcome).data).detected_by) = 5

\* The lookup of a reputation tool ended with a cache hit.
ReturnedFromCache ==
    /\ ToolReturned
    /\ tool.name \in ReputationToolNames
    /\ tool.lookup # Undefined
    /\ tool.providerCalls = 0

\* C21: a reputation lookup reads the cache before it calls the provider;
\* on a hit it returns the cached result without a provider call, and the
\* ToolOutcome has cached = true.
C21_CacheHitFlagged ==
    /\ (ToolDispatch /\ tool.providerCalls > 0 /\ tool.env.UPSTASH_REDIS)
          => (Len(tool.cacheOps) >= 1 /\ tool.cacheOps[1] = "get")
    /\ ReturnedFromCache =>
          /\ tool.cacheOps = <<"get">>
          /\ The(tool.outcome).success
          /\ The(tool.outcome).cached = Some(TRUE)

-----------------------------------------------------------------------------
\* Concurrent lookups of one subject. Each webhook invocation builds its own
\* ThreatIntelService over the same Redis store; the lookups below are
\* checkUrlReputation / checkIpReputation calls of different invocations
\* for the same cache key, with the provider key and Redis configured.

NumLookups == 2

\* The subject all the lookups ask about: a valid argument of the tool.
SharedInput(name) ==
    CHOOSE input \in Inputs(name) : ValidArgument(name, input)

\* The service's cacheKey: the tool's prefix and the subject.
cacheKey(name, input) == <<name, ReputationArg(name, input)>>

\* The store holds one key. value is what redis.get yields, writes counts
\* the setex commands applied since the key last expired.
LookupStore(name) ==
    [keys |-> {cacheKey(name, SharedInput(name))}, name |-> name,
     value |-> Undefined, writes |-> 0]

LookupInit ==
    /\ entry = "checkReputation"
    /\ email = NoInput
    /\ pc = "none"
    /\ now = 0
    /\ startTime = 0
    /\ iterationCount = 0
    /\ toolCalls = <<>>
    /\ totalToolTime = 0
    /\ messages = <<>>
    /\ response = Undefined
    /\ blockIdx = 0
    /\ toolResults = <<>>
    /\ callStart = 0
    /\ result = Undefined
    /\ thrown = Undefined
    /\ cause = Undefined
    /\ modelCallLog = <<>>
    /\ lastTurn = <<>>
    /\ simpleStart = 0
    /\ fallbackCalls = 0
    /\ simpleModelCalls = 0
    /\ tool = NoTool
    /\ \E name \in ReputationToolNames : store = LookupStore(name)
    /\ invocations = [i \in 1..NumLookups |->
                         [pc |-> "cacheRead", result |-> Undefined]]

\* redis.get yields the stored value: the invocation returns it.
LookupCacheHit(i) ==
    /\ invocations[i].pc = "cacheRead"
    /\ store.value # Undefined
    /\ invocations' = [invocations EXCEPT
                          ![i] = [pc |-> "done",
                                  result |-> Some(The(store.value).json)]]
    /\ UNCHANGED <<agentVars, tool, store>>

\* redis.get yields nothing: the invocation goes on to the provider.
LookupCacheMiss(i) ==
    /\ invocations[i].pc = "cacheRead"
    /\ store.value = Undefined
    /\ invocations' = [invocations EXCEPT ![i].pc = "provider"]
    /\ UNCHANGED <<agentVars, tool, store>>

\* redis.get rejects: caught and logged, the provider is asked.
LookupCacheReadFails(i) ==
    /\ invocations[i].pc = "cacheRead"
    /\ invocations' = [invocations EXCEPT ![i].pc = "provider"]
    /\ UNCHANGED <<agentVars, tool, store>>

\* The provider answers: the result is built and setex is issued.
LookupProviderAnswers(i) ==
    /\ invocations[i].pc = "provider"
    /\ \E report \in EarlierReports(store.name) :
          invocations' = [invocations EXCEPT
             ![i] = [pc |-> "cacheWrite",
                     result |-> Some(ReputationResult(
                                   store.name,
                                   ReputationArg(store.name,
                                                 SharedInput(store.name)),
                                   report))]]
    /\ UNCHANGED <<agentVars, tool, store>>

\* The request fails or the answer is invalid: null, nothing is written.
LookupProviderFails(i) ==
    /\ invocations[i].pc = "provider"
    /\ invocations' = [invocations EXCEPT ![i].pc = "done"]
    /\ UNCHANGED <<agentVars, tool, store>>

\* What setex does to the store: the value is replaced, whatever is there.
setex(st, json) == [st EXCEPT !.value = json, !.writes = @ + 1]

\* setex is applied by the store and the invocation returns its result.
LookupCacheWritten(i) ==
    /\ invocations[i].pc = "cacheWrite"
    /\ store' = setex(store, JSONStringify(invocations[i].result))
    /\ invocations' = [invocations EXCEPT ![i].pc = "done"]
    /\ UNCHANGED <<agentVars, tool>>

\* setex rejects: caught and logged, the invocation returns its result.
LookupCacheWriteFails(i) ==
    /\ invocations[i].pc = "cacheWrite"
    /\ invocations' = [invocations EXCEPT ![i].pc = "done"]
    /\ UNCHANGED <<agentVars, tool, store>>

\* The TTL (cacheTtl) of the stored value runs out: the key is gone and a
\* new cache lifetime begins.
KeyExpires ==
    /\ store.value # Undefined
    /\ store' = [store EXCEPT !.value = Undefined, !.writes = 0]
    /\ UNCHANGED <<agentVars, tool, invocations>>

LookupNext ==
    \/ \E i \in 1..NumLookups : LookupCacheHit(i)
    \/ \E i \in 1..NumLookups : LookupCacheMiss(i)
    \/ \E i \in 1..NumLookups : LookupCacheReadFails(i)
    \/ \E i \in 1..NumLookups : LookupProviderAnswers(i)
    \/ \E i \in 1..NumLookups : LookupProviderFails(i)
    \/ \E i \in 1..NumLookups : LookupCacheWritten(i)
    \/ \E i \in 1..NumLookups : LookupCacheWriteFails(i)
    \/ KeyExpires

LookupSpec == LookupInit /\ [][LookupNext]_vars

\* C22: for each (tool, subject) key the reputation cache is written at
\* most once per cache lifetime, for every interleaving of concurrent
\* lookups of the same subject by different invocations.
C22_WrittenOncePerLifetime == store.writes <= 1

-----------------------------------------------------------------------------
\* The local tools on their own: checkAuthentication, analyzeSender and
\* extractUrls as functions of the text they are given. Strings are
\* sequences of characters, so that includes() is a substring test.

UpperCase == <<"A", "B", "C", "D", "E", "F", "G", "H", "I", "J", "K", "L", "M", "N", "O", "P", "Q", "R", "S", "T", "U", "V", "W", "X", "Y", "Z">>
LowerCase == <<"a", "b", "c", "d", "e", "f", "g", "h", "i", "j", "k", "l", "m", "n", "o", "p", "q", "r", "s", "t", "u", "v", "w", "x", "y", "z">>

\* String.prototype.toLowerCase, character by character.
toLowerChar(c) ==
    IF \E k \in 1..Len(UpperCase) : UpperCase[k] = c
    THEN LowerCase[CHOOSE k \in 1..Len(UpperCase) : UpperCase[k] = c]
    ELSE c
toLowerCase(s) == [k \in 1..Len(s) |-> toLowerChar(s[k])]

\* String.prototype.includes: p occurs in s as a substring.
includes(s, p) ==
    \E k \in 0..(Len(s) - Len(p)) : SubSeq(s, k + 1, k + Len(p)) = p

\* headers[name]: undefined when the mapping has no such key.
HeaderValue(headers, name) ==
    IF name \in DOMAIN headers THEN Some(headers[name]) ELSE Undefined

\* a || b for header values: undefined and '' are falsy.
Truthy(a) == a # Undefined /\ The(a) # <<>>
OrElse(a, b) == IF Truthy(a) THEN a ELSE b

spfHeader(headers) ==
    OrElse(HeaderValue(headers, "received-spf"),
    OrElse(HeaderValue(headers, "spf"),
    OrElse(HeaderValue(headers, "SPF"),
           HeaderValue(headers, "Received-SPF"))))

spfStatus(spfLower) ==
    IF includes(spfLower, <<"p", "a", "s", "s">>) THEN "pass"
    ELSE IF includes(spfLower, <<"f", "a", "i", "l">>)
            /\ ~includes(spfLower, <<"s", "o", "f", "t", "f", "a", "i", "l">>)
    THEN "fail"
    ELSE IF includes(spfLower, <<"s", "o", "f", "t", "f", "a", "i", "l">>) THEN "softfail"
    ELSE IF includes(spfLower, <<"n", "e", "u", "t", "r", "a", "l">>) THEN "neutral"
    ELSE "none"

dkimHeader(headers) ==
    OrElse(HeaderValue(headers, "dkim-signature"),
    OrElse(HeaderValue(headers, "DKIM-Signature"),
    OrElse(HeaderValue(headers, "dkim"),
           HeaderValue(headers, "authentication-results"))))

\* A status that also takes the presence of a signature (v=1) for a pass.
dkimStatus_SignaturePresence(dkimLower) ==
    IF includes(dkimLower, <<"d", "k", "i", "m", "=", "p", "a", "s", "s">>)
       \/ includes(dkimLower, <<"v", "=", "1">>)
    THEN "pass"
    ELSE "none"

dkimStatus(dkimLower) ==
    IF includes(dkimLower, <<"d", "k", "i", "m", "=", "p", "a", "s", "s">>) THEN "pass"
    ELSE IF includes(dkimLower, <<"d", "k", "i", "m", "=", "f", "a", "i", "l">>) THEN "fail"
    ELSE IF includes(dkimLower, <<"d", "k", "i", "m", "=", "n", "e", "u", "t", "r", "a", "l">>) THEN "neutral"
    ELSE "none"

dmarcHeader(headers) ==
    OrElse(HeaderValue(headers, "dmarc"),
    OrElse(HeaderValue(headers, "DMARC"),
           HeaderValue(headers, "authentication-results")))

dmarcStatus(dmarcLower) ==
    IF includes(dmarcLower, <<"d", "m", "a", "r", "c", "=", "p", "a", "s", "s">>) THEN "pass"
    ELSE IF includes(dmarcLower, <<"d", "m", "a", "r", "c", "=", "f", "a", "i", "l">>) THEN "fail"
    ELSE IF includes(dmarcLower, <<"d", "m", "a", "r", "c", "=", "n", "e", "u", "t", "r", "a", "l">>) THEN "neutral"
    ELSE "none"

\* The data checkAuthentication returns for a mapping of strings.
checkAuthenticationData(headers) ==
    LET spf == spfHeader(headers)
        dkim == dkimHeader(headers)
        dmarc == dmarcHeader(headers)
    IN [spf |-> IF Truthy(spf) THEN spfStatus(toLowerCase(The(spf)))
                ELSE "none",
        dkim |-> IF Truthy(dkim) THEN dkimStatus(toLowerCase(The(dkim)))
                 ELSE "none",
        dmarc |-> IF Truthy(dmarc) THEN dmarcStatus(toLowerCase(The(dmarc)))
                  ELSE "none",
        details |-> [spf_raw |-> spf, dkim_raw |-> dkim, dmarc_raw |-> dmarc]]

\* A call that first folds the keys of the mapping it was given to lower
\* case, in place.
checkAuthenticationCall_FoldingKeys(input) ==
    LET folded == [name \in {"received-spf", "spf", "dkim-signature", "dkim",
                             "authentication-results", "dmarc"}
                      \cap {IF n = "SPF" THEN "spf"
                            ELSE IF n = "Received-SPF" THEN "received-spf"
                            ELSE IF n = "DKIM-Signature" THEN "dkim-signature"
                            ELSE IF n = "DMARC" THEN "dmarc"
                            ELSE n : n \in DOMAIN input.headers} |->
                     IF name \in DOMAIN input.headers
                     THEN input.headers[name]
                     ELSE IF name = "spf" THEN input.headers["SPF"]
                     ELSE IF name = "received-spf"
                     THEN input.headers["Received-SPF"]
                     ELSE IF name = "dkim-signature"
                     THEN input.headers["DKIM-Signature"]
                     ELSE input.headers["DMARC"]]
    IN [returned |-> [success |-> TRUE,
                      data |-> checkAuthenticationData(folded)],
        input |-> [headers |-> folded]]

\* One call of checkAuthentication: what it returns, and the argument
\* object as the call leaves it (nothing is assigned to it).
checkAuthenticationCall(input) ==
    [returned |-> [success |-> TRUE,
                   data |-> checkAuthenticationData(input.headers)],
     input |-> input]

\* The header names the function consults, and sample header values.
HeaderNames ==
    {"received-spf", "spf", "SPF", "Received-SPF", "dkim-signature",
     "DKIM-Signature", "dkim", "authentication-results", "dmarc", "DMARC"}

HeaderTexts ==
    {<<>>,
     <<"s", "o", "f", "t", "f", "a", "i", "l", " ", "(", "x", ".", "i", "o", ")">>,
     <<"s", "o", "f", "t", "f", "a", "i", "l", " ", "(", "c", "o", "m", "p", "a", "s", "s", ".", "i", "o", ")">>,
     <<"F", "a", "i", "l">>,
     <<"n", "e", "u", "t", "r", "a", "l">>,
     <<"v", "=", "1", ";", " ", "d", "=", "x", ".", "i", "o">>,
     <<"d", "k", "i", "m", "=", "p", "a", "s", "s">>,
     <<"D", "K", "I", "M", "=", "F", "a", "i", "l", " ", "d", "m", "a", "r", "c", "=", "p", "a", "s", "s">>}

MaxHeaders == 2

HeaderMappings ==
    UNION {[names -> HeaderTexts] :
              names \in {n \in SUBSET HeaderNames : Cardinality(n) <= MaxHeaders}}

\* checkAuthentication has returned; the data of its (first) result.
AuthenticationReturned ==
    tool.name = "check_authentication" /\ tool.first # Undefined
AuthenticationData == The(tool.first).data

\* The SPF header the call consulted has 'softfail' in it, in any case.
SoftfailHeader ==
    /\ AuthenticationReturned
    /\ Truthy(spfHeader(tool.given.headers))
    /\ includes(toLowerCase(The(spfHeader(tool.given.headers))),
                <<"s", "o", "f", "t", "f", "a", "i", "l">>)

\* C23: every SPF header value that contains 'softfail' (in any case),
\* whatever other words it contains, is classified exactly 'softfail',
\* never 'fail'.
C23_SoftfailIsSoftfail ==
    SoftfailHeader => AuthenticationData.spf = "softfail"

\* The value the DKIM status was read from has the token 'dkim=pass'.
DkimPassToken ==
    /\ Truthy(dkimHeader(tool.given.headers))
    /\ includes(toLowerCase(The(dkimHeader(tool.given.headers))),
                <<"d", "k", "i", "m", "=", "p", "a", "s", "s">>)

C25_AuthenticationResultsDecideDkim ==
    (/\ AuthenticationReturned
     /\ "authentication-results" \in DOMAIN tool.given.headers
     /\ includes(toLowerCase(tool.given.headers["authentication-results"]),
                 <<"d", "k", "i", "m", "=", "p", "a", "s", "s">>))
       => AuthenticationData.dkim = "pass"

LocalCallState(name, input) ==
    [pc |-> "called", name |-> name, given |-> input, input |-> input,
     first |-> Undefined, second |-> Undefined]

\* The tool is called on the argument object, and then once more on the
\* same object.
Called(ret) ==
    /\ tool.pc = "called"
    /\ tool' = IF tool.first = Undefined
               THEN [tool EXCEPT !.first = Some(ret.returned),
                                 !.input = ret.input]
               ELSE [tool EXCEPT !.second = Some(ret.returned),
                                 !.input = ret.input,
                                 !.pc = "returned"]
    /\ UNCHANGED <<agentVars, sharedVars>>

CallCheckAuthentication ==
    /\ tool.name = "check_authentication"
    /\ Called(checkAuthenticationCall(tool.input))

\* analyzeSender.

IsWordChar(c) ==
    \/ \E k \in 1..Len(LowerCase) : LowerCase[k] = c \/ UpperCase[k] = c
    \/ IsDigit(c)
    \/ c = "_"
IsAddressChar(c) == IsWordChar(c) \/ c = "." \/ c = "-"

\* input.from.match(/<(.+?)>/): the leftmost '<' that has a '>' at least
\* two places on, up to the nearest such '>'.
emailMatch(from) ==
    LET opens == {i \in 1..Len(from) :
                     from[i] = "<" /\ \E j \in (i + 2)..Len(from) : from[j] = ">"}
    IN IF opens = {} THEN Undefined
       ELSE LET i == CHOOSE o \in opens : \A p \in opens : o <= p
                j == CHOOSE c \in (i + 2)..Len(from) :
                        /\ from[c] = ">"
                        /\ \A d \in (i + 2)..(c - 1) : from[d] # ">"
            IN Some(SubSeq(from, i + 1, j - 1))

\* String.prototype.trim, for blanks.
RECURSIVE trim(_)
trim(s) ==
    IF s # <<>> /\ Head(s) = " " THEN trim(Tail(s))
    ELSE IF s # <<>> /\ s[Len(s)] = " " THEN trim(SubSeq(s, 1, Len(s) - 1))
    ELSE s

\* input.from.split('<')[0]
beforeBracket(from) ==
    IF \E i \in 1..Len(from) : from[i] = "<"
    THEN SubSeq(from, 1, (CHOOSE i \in 1..Len(from) :
                             /\ from[i] = "<"
                             /\ \A k \in 1..(i - 1) : from[k] # "<") - 1)
    ELSE from

\* email.match(/@(.+)$/), lower-cased: what follows the first '@'.
domainOf(address) ==
    LET ats == {i \in 1..(Len(address) - 1) : address[i] = "@"}
    IN IF ats = {} THEN <<>>
       ELSE toLowerCase(SubSeq(address,
                               (CHOOSE a \in ats : \A b \in ats : a <= b) + 1,
                               Len(address)))

freeEmailProviders ==
    {<<"g", "m", "a", "i", "l", ".", "c", "o", "m">>,
         <<"y", "a", "h", "o", "o", ".", "c", "o", "m">>,
         <<"o", "u", "t", "l", "o", "o", "k", ".", "c", "o", "m">>,
         <<"h", "o", "t", "m", "a", "i", "l", ".", "c", "o", "m">>,
         <<"a", "o", "l", ".", "c", "o", "m">>,
         <<"p", "r", "o", "t", "o", "n", "m", "a", "i", "l", ".", "c", "o", "m">>,
         <<"m", "a", "i", "l", ".", "c", "o", "m">>,
         <<"i", "c", "l", "o", "u", "d", ".", "c", "o", "m">>}

\* displayName.match(/[\w\.-]+@[\w\.-]+\.\w+/): the matches that start at
\* s, as <<s, e>>; the regex engine takes the leftmost start and, with
\* greedy quantifiers, the last dot that a word character follows.
AddressMatches(text) ==
    {m \in (1..Len(text)) \X (1..Len(text)) :
        \E a \in (m[1] + 1)..(m[2] - 3), d \in (m[1] + 3)..(m[2] - 1) :
           /\ text[a] = "@"
           /\ \A k \in m[1]..(a - 1) : IsAddressChar(text[k])
           /\ d > a + 1
           /\ \A k \in (a + 1)..(d - 1) : IsAddressChar(text[k])
           /\ text[d] = "."
           /\ \A k \in (d + 1)..m[2] : IsWordChar(text[k])
           /\ (m[2] = Len(text) \/ ~IsWordChar(text[m[2] + 1]))
           /\ ~\E d2 \in (d + 1)..Len(text) :
                 /\ \A k \in (a + 1)..(d2 - 1) : IsAddressChar(text[k])
                 /\ text[d2] = "."
                 /\ d2 < Len(text) /\ IsWordChar(text[d2 + 1])}

displayEmailMatch(text) ==
    LET ms == AddressMatches(text)
    IN IF ms = {} THEN Undefined
       ELSE LET m == CHOOSE x \in ms : \A y \in ms : x[1] <= y[1]
            IN Some(SubSeq(text, m[1], m[2]))

brandNames ==
    <<<<"p", "a", "y", "p", "a", "l">>,
          <<"a", "m", "a", "z", "o", "n">>,
          <<"m", "i", "c", "r", "o", "s", "o", "f", "t">>,
          <<"a", "p", "p", "l", "e">>,
          <<"g", "o", "o", "g", "l", "e">>,
          <<"b", "a", "n", "k">>>>

\* The variants of typosquattingPatterns, in the order they are tried.
typosquattingPatterns ==
    <<[original |-> <<"p", "a", "y", "p", "a", "l">>, variant |-> <<"p", "a", "y", "p", "a", "1">>],
      [original |-> <<"p", "a", "y", "p", "a", "l">>, variant |-> <<"p", "a", "y", "p", "a", "i">>],
      [original |-> <<"p", "a", "y", "p", "a", "l">>, variant |-> <<"p", "a", "y", "p", "a">>],
      [original |-> <<"a", "m", "a", "z", "o", "n">>, variant |-> <<"a", "r", "n", "a", "z", "o", "n">>],
      [original |-> <<"a", "m", "a", "z", "o", "n">>, variant |-> <<"a", "m", "a", "z", "o", "m">>],
      [original |-> <<"a", "m", "a", "z", "o", "n">>, variant |-> <<"a", "m", "a", "z", "0", "n">>],
      [original |-> <<"m", "i", "c", "r", "o", "s", "o", "f", "t">>, variant |-> <<"m", "i", "c", "r", "o", "s", "0", "f", "t">>],
      [original |-> <<"m", "i", "c", "r", "o", "s", "o", "f", "t">>, variant |-> <<"m", "i", "c", "r", "0", "s", "o", "f", "t">>],
      [original |-> <<"a", "p", "p", "l", "e">>, variant |-> <<"a", "p", "p", "i", "e">>],
      [original |-> <<"a", "p", "p", "l", "e">>, variant |-> <<"a", "p", "p", "l", "3">>]>>

suspiciousTlds ==
    {<<".", "t", "k">>,
         <<".", "m", "l">>,
         <<".", "g", "a">>,
         <<".", "c", "f">>,
         <<".", "g", "q">>,
         <<".", "x", "y", "z">>,
         <<".", "t", "o", "p">>,
         <<".", "w", "o", "r", "k">>,
         <<".", "c", "l", "i", "c", "k">>}

\* domain.substring(domain.lastIndexOf('.')); lastIndexOf is -1 when there
\* is no dot, and substring(-1) is the whole string.
tldOf(domain) ==
    LET dots == {i \in 1..Len(domain) : domain[i] = "."}
    IN IF dots = {} THEN domain
       ELSE SubSeq(domain, CHOOSE d \in dots : \A e \in dots : e <= d,
                   Len(domain))

\* domain.match(/^[a-z0-9-]+\.com$/)
PlainDotCom(domain) ==
    /\ Len(domain) >= 5
    /\ SubSeq(domain, Len(domain) - 3, Len(domain)) = <<".", "c", "o", "m">>
    /\ \A k \in 1..(Len(domain) - 4) :
          \/ \E l \in 1..Len(LowerCase) : LowerCase[l] = domain[k]
          \/ IsDigit(domain[k])
          \/ domain[k] = "-"

\* The elements of seq that pass test, each turned into a finding.
Findings(seq, test(_), finding(_)) ==
    LET kept == SelectSeq(seq, test)
    IN [k \in 1..Len(kept) |-> finding(kept[k])]

\* A verdict that counts the findings of severity high only.
isSuspicious_HighOnly(spoofingIndicators) ==
    \E k \in 1..Len(spoofingIndicators) :
       spoofingIndicators[k].severity = "high"

isSuspicious(spoofingIndicators) == Len(spoofingIndicators) > 0

\* The data analyzeSender returns for a from string and an optional
\* display_name.
analyzeSenderData(input) ==
    LET matched == emailMatch(input.from)
        address == IF matched # Undefined THEN The(matched) ELSE input.from
        displayName == IF Truthy(input.display_name)
                       THEN The(input.display_name)
                       ELSE trim(beforeBracket(input.from))
        domain == domainOf(address)
        isFreeEmailProvider == domain \in freeEmailProviders
        displayLower == toLowerCase(displayName)
        named == displayName # <<>> /\ displayName # address
        inName == displayEmailMatch(displayName)
        mismatch ==
            IF named /\ inName # Undefined /\ The(inName) # address
            THEN <<[type |-> "display_name_email_mismatch",
                    severity |-> "high",
                    description |->
                       <<"D", "i", "s", "p", "l", "a", "y", " ", "n", "a", "m", "e", " ", "c", "o", "n", "t", "a", "i", "n", "s", " ", "d", "i", "f", "f", "e", "r", "e", "n", "t", " ", "e", "m", "a", "i", "l", " ", "(">>
                       \o The(inName) \o <<")", " ", "t", "h", "a", "n", " ", "s", "e", "n", "d", "e", "r", " ", "(">>
                       \o address \o <<")">>]>>
            ELSE <<>>
        brands ==
            IF named
            THEN Findings(brandNames,
                    LAMBDA brand : includes(displayLower, brand)
                                   /\ isFreeEmailProvider,
                    LAMBDA brand :
                       [type |-> "brand_impersonation", severity |-> "high",
                        description |->
                           <<"D", "i", "s", "p", "l", "a", "y", " ", "n", "a", "m", "e", " ", "\"">> \o displayName
                           \o <<"\"", " ", "s", "u", "g", "g", "e", "s", "t", "s", " ">> \o brand
                           \o <<" ", "b", "u", "t", " ", "u", "s", "e", "s", " ", "f", "r", "e", "e", " ", "e", "m", "a", "i", "l", " ", "p", "r", "o", "v", "i", "d", "e", "r", " ">>
                           \o domain])
            ELSE <<>>
        typos ==
            Findings(typosquattingPatterns,
                LAMBDA pattern : includes(domain, pattern.variant),
                LAMBDA pattern :
                   [type |-> "typosquatting", severity |-> "high",
                    description |->
                       <<"D", "o", "m", "a", "i", "n", " ">> \o domain
                       \o <<" ", "r", "e", "s", "e", "m", "b", "l", "e", "s", " ">> \o pattern.original
                       \o <<" ", "(", "p", "o", "s", "s", "i", "b", "l", "e", " ", "t", "y", "p", "o", "s", "q", "u", "a", "t", "t", "i", "n", "g", ")">>])
        tld == tldOf(domain)
        tlds ==
            IF tld \in suspiciousTlds
            THEN <<[type |-> "suspicious_tld", severity |-> "medium",
                    description |->
                       <<"D", "o", "m", "a", "i", "n", " ", "u", "s", "e", "s", " ", "s", "u", "s", "p", "i", "c", "i", "o", "u", "s", " ", "T", "L", "D", " ">> \o tld]>>
            ELSE <<>>
        numeric ==
            IF /\ \E k \in 1..Len(domain) : IsDigit(domain[k])
               /\ ~PlainDotCom(domain)
               /\ \E k \in 1..Len(domain) : domain[k] \in {"0", "o", "1", "l"}
            THEN <<[type |-> "numeric_substitution", severity |-> "medium",
                    description |->
                       <<"D", "o", "m", "a", "i", "n", " ", "c", "o", "n", "t", "a", "i", "n", "s", " ", "s", "u", "s", "p", "i", "c", "i", "o", "u", "s", " ", "n", "u", "m", "e", "r", "i", "c", " ", "s", "u", "b", "s", "t", "i", "t", "u", "t", "i", "o", "n", "s", " ", "(">>
                       \o domain \o <<")">>]>>
            ELSE <<>>
        spoofingIndicators == mismatch \o brands \o typos \o tlds \o numeric
    IN [email |-> address,
        domain |-> domain,
        is_suspicious |-> isSuspicious(spoofingIndicators),
        spoofing_indicators |-> spoofingIndicators,
        free_email_provider |-> isFreeEmailProvider]

analyzeSenderCall(input) ==
    [returned |-> [success |-> TRUE, data |-> analyzeSenderData(input)],
     input |-> input]

\* Sample senders: domains with each listed variant in them, the brands'
\* own domains, a free provider, and others; bare and with a name in front.
SenderDomains ==
    {<<"p", "a", "y", "p", "a", "1", ".", "c", "o", "m">>,
         <<"m", "y", "-", "p", "a", "y", "p", "a", "1", ".", "t", "k">>,
         <<"p", "a", "y", "p", "a", "i", ".", "c", "o", "m">>,
         <<"m", "y", "-", "p", "a", "y", "p", "a", "i", ".", "t", "k">>,
         <<"p", "a", "y", "p", "a", ".", "c", "o", "m">>,
         <<"m", "y", "-", "p", "a", "y", "p", "a", ".", "t", "k">>,
         <<"a", "r", "n", "a", "z", "o", "n", ".", "c", "o", "m">>,
         <<"m", "y", "-", "a", "r", "n", "a", "z", "o", "n", ".", "t", "k">>,
         <<"a", "m", "a", "z", "o", "m", ".", "c", "o", "m">>,
         <<"m", "y", "-", "a", "m", "a", "z", "o", "m", ".", "t", "k">>,
         <<"a", "m", "a", "z", "0", "n", ".", "c", "o", "m">>,
         <<"m", "y", "-", "a", "m", "a", "z", "0", "n", ".", "t", "k">>,
         <<"m", "i", "c", "r", "o", "s", "0", "f", "t", ".", "c", "o", "m">>,
         <<"m", "y", "-", "m", "i", "c", "r", "o", "s", "0", "f", "t", ".", "t", "k">>,
         <<"m", "i", "c", "r", "0", "s", "o", "f", "t", ".", "c", "o", "m">>,
         <<"m", "y", "-", "m", "i", "c", "r", "0", "s", "o", "f", "t", ".", "t", "k">>,
         <<"a", "p", "p", "i", "e", ".", "c", "o", "m">>,
         <<"m", "y", "-", "a", "p", "p", "i", "e", ".", "t", "k">>,
         <<"a", "p", "p", "l", "3", ".", "c", "o", "m">>,
         <<"m", "y", "-", "a", "p", "p", "l", "3", ".", "t", "k">>,
         <<"p", "a", "y", "p", "a", "l", ".", "c", "o", "m">>,
         <<"a", "m", "a", "z", "o", "n", ".", "c", "o", "m">>,
         <<"m", "i", "c", "r", "o", "s", "o", "f", "t", ".", "c", "o", "m">>,
         <<"a", "p", "p", "l", "e", ".", "c", "o", "m">>,
         <<"g", "m", "a", "i", "l", ".", "c", "o", "m">>,
         <<"s", "e", "c", "u", "r", "e", "-", "l", "o", "g", "i", "n", ".", "t", "k">>,
         <<"C", "O", "M", "P", "A", "N", "Y", ".", "c", "o", "m">>,
         <<"x", "1", ".", "i", "o">>}

DisplayNames ==
    {<<"P", "a", "y", "P", "a", "l">>,
         <<"A", "m", "a", "z", "o", "n", " ", "C", "u", "s", "t", "o", "m", "e", "r", " ", "S", "e", "r", "v", "i", "c", "e">>,
         <<"M", "i", "c", "r", "o", "s", "o", "f", "t">>,
         <<"A", "p", "p", "l", "e", " ", "S", "u", "p", "p", "o", "r", "t">>,
         <<"b", "@", "x", "1", ".", "i", "o">>}

FromTexts ==
    {<<"a", "@">> \o d : d \in SenderDomains}
    \cup {n \o <<" ", "<", "a", "@">> \o d \o <<">">> :
             n \in DisplayNames, d \in SenderDomains}

SenderInputs ==
    [from : FromTexts, display_name : {Undefined} \cup {Some(n) : n \in DisplayNames}]

CallAnalyzeSender ==
    /\ tool.name = "analyze_sender"
    /\ Called(analyzeSenderCall(tool.input))

\* analyzeSender has returned; the data of its (first) result.
SenderReturned == tool.name = "analyze_sender" /\ tool.first # Undefined
SenderData == The(tool.first).data

TyposquattingFound(data) ==
    \E k \in 1..Len(data.spoofing_indicators) :
       /\ data.spoofing_indicators[k].type = "typosquatting"
       /\ data.spoofing_indicators[k].severity = "high"

\* C26: analyze_sender sets is_suspicious to true exactly when its list of
\* findings is non-empty, and every sender whose domain contains a listed
\* typosquat variant gets a 'typosquatting' finding of severity high.
C26_SuspiciousIffFindings ==
    SenderReturned =>
        /\ SenderData.is_suspicious <=> SenderData.spoofing_indicators # <<>>
        /\ \A v \in {<<"p", "a", "y", "p", "a", "1">>, <<"p", "a", "y", "p", "a", "i">>, <<"p", "a", "y", "p", "a">>, <<"a", "r", "n", "a", "z", "o", "n">>, <<"a", "m", "a", "z", "o", "m">>, <<"a", "m", "a", "z", "0", "n">>, <<"m", "i", "c", "r", "o", "s", "0", "f", "t">>, <<"m", "i", "c", "r", "0", "s", "o", "f", "t">>, <<"a", "p", "p", "i", "e">>, <<"a", "p", "p", "l", "3">>} :
              includes(SenderData.domain, v) => TyposquattingFound(SenderData)

\* A sender at a look-alike domain under a suspicious TLD was analysed.
C26_Witness ==
    /\ SenderReturned
    /\ SenderData.domain = <<"m", "y", "-", "a", "p", "p", "l", "3", ".", "t", "k">>
    /\ SenderData.is_suspicious
    /\ TyposquattingFound(SenderData)
    /\ Len(SenderData.spoofing_indicators) >= 2

\* The brands of the claim and their own domains.
GenuineDomains ==
    {[brand |-> <<"p", "a", "y", "p", "a", "l">>, domain |-> <<"p", "a", "y", "p", "a", "l", ".", "c", "o", "m">>],
     [brand |-> <<"a", "m", "a", "z", "o", "n">>, domain |-> <<"a", "m", "a", "z", "o", "n", ".", "c", "o", "m">>],
     [brand |-> <<"m", "i", "c", "r", "o", "s", "o", "f", "t">>, domain |-> <<"m", "i", "c", "r", "o", "s", "o", "f", "t", ".", "c", "o", "m">>],
     [brand |-> <<"a", "p", "p", "l", "e">>, domain |-> <<"a", "p", "p", "l", "e", ".", "c", "o", "m">>]}

\* The display name the sender goes by: the argument, or the text in front
\* of the address.
NameShown ==
    IF Truthy(tool.given.display_name) THEN The(tool.given.display_name)
    ELSE trim(beforeBracket(tool.given.from))

\* C27: a sender at a brand's genuine domain (paypal.com, amazon.com,
\* microsoft.com, apple.com) whose display name names that brand yields no
\* spoofing indicators and is_suspicious = false.
C27_GenuineBrandNotFlagged ==
    \A g \in GenuineDomains :
       (/\ SenderReturned
        /\ SenderData.domain = g.domain
        /\ NameShown # tool.given.from
        /\ includes(toLowerCase(NameShown), g.brand))
          => /\ SenderData.spoofing_indicators = <<>>
             /\ ~SenderData.is_suspicious

\* extractUrls.

SAFE_DOMAINS ==
    {<<"g", "o", "o", "g", "l", "e", ".", "c", "o", "m">>,
     <<"g", "m", "a", "i", "l", ".", "c", "o", "m">>,
     <<"m", "i", "c", "r", "o", "s", "o", "f", "t", ".", "c", "o", "m">>,
     <<"o", "u", "t", "l", "o", "o", "k", ".", "c", "o", "m">>,
     <<"o", "f", "f", "i", "c", "e", ".", "c", "o", "m">>,
     <<"a", "p", "p", "l", "e", ".", "c", "o", "m">>,
     <<"i", "c", "l", "o", "u", "d", ".", "c", "o", "m">>,
     <<"y", "a", "h", "o", "o", ".", "c", "o", "m">>,
     <<"l", "i", "n", "k", "e", "d", "i", "n", ".", "c", "o", "m">>,
     <<"f", "a", "c", "e", "b", "o", "o", "k", ".", "c", "o", "m">>,
     <<"t", "w", "i", "t", "t", "e", "r", ".", "c", "o", "m">>,
     <<"i", "n", "s", "t", "a", "g", "r", "a", "m", ".", "c", "o", "m">>,
     <<"y", "o", "u", "t", "u", "b", "e", ".", "c", "o", "m">>,
     <<"a", "m", "a", "z", "o", "n", ".", "c", "o", "m">>,
     <<"g", "i", "t", "h", "u", "b", ".", "c", "o", "m">>}

IsAlnum(c) == IsWordChar(c) /\ c # "_"

\* The three character classes of urlRegex.
IsUrlHostChar(c) ==
    IsAlnum(c) \/ c \in {"-", "@", ":", "%", ".", "_", "+", "~", "#", "="}
IsUrlTldChar(c) == IsAlnum(c) \/ c \in {"(", ")"}
IsUrlTailChar(c) ==
    IsAlnum(c) \/ c \in {"-", "(", ")", "@", ":", "%", "_", "+", ".", "~",
                        "#", "?", "&", "/", "="}

\* \b after the k-th character of text.
WordBoundary(text, k) ==
    IsWordChar(text[k]) # (k < Len(text) /\ IsWordChar(text[k + 1]))

\* The greatest of a non-empty set of numbers, the least, and 0 for none.
Greatest(set) == IF set = {} THEN 0 ELSE CHOOSE x \in set : \A y \in set : y <= x
Least(set) == IF set = {} THEN 0 ELSE CHOOSE x \in set : \A y \in set : x <= y

\* \.[a-zA-Z0-9()]{1,6}\b at the dot d: how many characters the class
\* takes (the most that end at a word boundary), 0 when it cannot match.
TldLength(text, d) ==
    Greatest({m \in 1..6 :
                 /\ d + m <= Len(text)
                 /\ \A k \in (d + 1)..(d + m) : IsUrlTldChar(text[k])
                 /\ WordBoundary(text, d + m)})

\* The index after 'http://' or 'https://' (in any case) at s, 0 if the
\* text has neither there.
AfterScheme(text, s) ==
    LET colon == IF s + 4 <= Len(text) /\ toLowerChar(text[s + 4]) = "s"
                 THEN s + 5 ELSE s + 4
    IN IF /\ colon + 2 <= Len(text)
          /\ toLowerCase(SubSeq(text, s, s + 3)) = <<"h", "t", "t", "p">>
          /\ SubSeq(text, colon, colon + 2) = <<":", "/", "/">>
       THEN colon + 3
       ELSE 0

\* urlRegex tried at s: the index of the last character matched, or 0. The
\* greedy host class gives way to the last dot a top-level part follows.
MatchEnd(text, s) ==
    LET p == AfterScheme(text, s)
        dots == {d \in (p + 1)..Len(text) :
                    /\ text[d] = "."
                    /\ \A k \in p..(d - 1) : IsUrlHostChar(text[k])
                    /\ TldLength(text, d) > 0}
        d == Greatest(dots)
        e == d + TldLength(text, d)
        stops == {k \in (e + 1)..Len(text) : ~IsUrlTailChar(text[k])}
    IN IF p = 0 \/ dots = {} THEN 0
       ELSE IF stops = {} THEN Len(text) ELSE Least(stops) - 1

\* text.match(urlRegex) || [] with the g flag, from index s on.
RECURSIVE matchAll(_, _)
matchAll(text, s) ==
    IF s > Len(text) THEN <<>>
    ELSE LET e == MatchEnd(text, s)
         IN IF e > 0
            THEN <<SubSeq(text, s, e)>> \o matchAll(text, e + 1)
            ELSE matchAll(text, s + 1)

\* A Set filled by add() in this order: first occurrences, in order.
RECURSIVE SetOf(_)
SetOf(seq) ==
    IF seq = <<>> THEN <<>>
    ELSE LET front == SetOf(SubSeq(seq, 1, Len(seq) - 1))
             last == seq[Len(seq)]
         IN IF \E k \in 1..Len(front) : front[k] = last THEN front
            ELSE Append(front, last)

\* Every match of both texts, repeated as often as it was found.
foundUrls_EveryMatch(input) ==
    matchAll(input.email_body, 1)
    \o (IF Truthy(input.email_html) THEN matchAll(The(input.email_html), 1)
        ELSE <<>>)

foundUrls(input) ==
    SetOf(matchAll(input.email_body, 1)
          \o (IF Truthy(input.email_html)
              THEN matchAll(The(input.email_html), 1)
              ELSE <<>>))

\* new URL(url).hostname for a match of urlRegex, Undefined when the
\* constructor throws: no host, a port that is not a number, or a '%' in
\* the host. (The hosts here end in a label of letters.)
hostname(url) ==
    LET p == AfterScheme(url, 1)
        stops == {k \in p..Len(url) : url[k] \in {"/", "?", "#"}}
        authority == SubSeq(url, p, IF stops = {} THEN Len(url)
                                    ELSE Least(stops) - 1)
        ats == {k \in 1..Len(authority) : authority[k] = "@"}
        hostport == SubSeq(authority, Greatest(ats) + 1, Len(authority))
        colons == {k \in 1..Len(hostport) : hostport[k] = ":"}
        host == IF colons = {} THEN hostport
                ELSE SubSeq(hostport, 1, Least(colons) - 1)
        port == IF colons = {} THEN <<>>
                ELSE SubSeq(hostport, Least(colons) + 1, Len(hostport))
    IN IF \/ host = <<>>
          \/ \E k \in 1..Len(host) : host[k] = "%"
          \/ \E k \in 1..Len(port) : ~IsDigit(port[k])
       THEN Undefined
       ELSE Some(toLowerCase(host))

\* hostname.replace(/^www\./, '')
withoutWww(host) ==
    IF Len(host) >= 4 /\ SubSeq(host, 1, 4) = <<"w", "w", "w", ".">>
    THEN SubSeq(host, 5, Len(host))
    ELSE host

\* domain.split('.').slice(-2).join('.')
rootDomain(domain) ==
    LET dots == {k \in 1..Len(domain) : domain[k] = "."}
        last == Greatest(dots)
        before == Greatest({k \in dots : k < last})
    IN SubSeq(domain, before + 1, Len(domain))

\* input.email_body.indexOf(url)
indexOf(text, part) ==
    Least({k \in 1..(Len(text) - Len(part) + 1) :
              SubSeq(text, k, k + Len(part) - 1) = part}) - 1

\* The text around the URL in the body: 50 characters either side.
contextOf(body, url) ==
    LET urlIndex == indexOf(body, url)
        contextStart == IF urlIndex - 50 > 0 THEN urlIndex - 50 ELSE 0
        contextEnd == IF urlIndex + Len(url) + 50 < Len(body)
                      THEN urlIndex + Len(url) + 50 ELSE Len(body)
    IN trim(SubSeq(body, contextStart + 1, contextEnd))

\* What is pushed to urlDetails for a URL the constructor accepted.
urlDetail(body, url, host) ==
    [url |-> url,
     context |-> contextOf(body, url),
     domain |-> withoutWww(host),
     is_safe_domain |-> rootDomain(withoutWww(host)) \in SAFE_DOMAINS]

\* foundUrls.forEach: a URL the constructor throws on is skipped.
RECURSIVE urlDetailsOf(_, _)
urlDetailsOf(body, urls) ==
    IF urls = <<>> THEN <<>>
    ELSE (IF hostname(Head(urls)) = Undefined THEN <<>>
          ELSE <<urlDetail(body, Head(urls), The(hostname(Head(urls))))>>)
         \o urlDetailsOf(body, Tail(urls))

\* The data returned for the details collected.
extractUrlsResult(urlDetails) ==
    [urls |-> urlDetails,
     total_found |-> Len(urlDetails),
     suspicious_count |->
        Len(SelectSeq(urlDetails, LAMBDA u : ~u.is_safe_domain))]

\* The data extractUrls returns for a body and an optional HTML part.
extractUrlsData(input) ==
    extractUrlsResult(urlDetailsOf(input.email_body, foundUrls(input)))

extractUrlsCall(input) ==
    [returned |-> [success |-> TRUE, data |-> extractUrlsData(input)],
     input |-> input]

\* Sample bodies: one or two of these pieces; sample HTML parts.
BodyPieces ==
    {<<>>,
     <<"V", "i", "s", "i", "t", " ", "h", "t", "t", "p", "s", ":", "/", "/", "e", "x", "a", "m", "p", "l", "e", ".", "c", "o", "m", " ", "n", "o", "w">>,
     <<"s", "e", "e", " ", "H", "T", "T", "P", "S", ":", "/", "/", "w", "w", "w", ".", "G", "o", "o", "g", "l", "e", ".", "c", "o", "m", "/", "m", "a", "i", "l", "?", "x", "=", "1", ".">>,
     <<"h", "t", "t", "p", "s", ":", "/", "/", "g", "m", "a", "i", "l", ".", "c", "o", "m", " ", "a", "n", "d", " ", "h", "t", "t", "p", "s", ":", "/", "/", "p", "a", "y", "p", "a", "1", ".", "c", "o", "m">>,
     <<"B", "a", "d", " ", "U", "R", "L", ":", " ", "h", "t", "p", ":", "/", "/", "b", "r", "o", "k", "e", "n", ",", " ", "h", "t", "t", "p", ":", "/", "/", "x", ".", "i", "o", ":", "8", "a", "/", "p">>,
     <<"g", "o", " ", "t", "o", " ", "h", "t", "t", "p", "s", ":", "/", "/", "m", "a", "i", "l", ".", "g", "o", "o", "g", "l", "e", ".", "c", "o", "m", ".", "e", "v", "i", "l", ".", "x", "y", "z", "/", "l", "o", "g", "i", "n", " ", "(", "n", "o", "w", ")">>}

BodyTexts ==
    BodyPieces \cup {a \o <<" ">> \o b : a \in BodyPieces, b \in BodyPieces}

HtmlTexts ==
    {Undefined, Some(<<>>),
     Some(<<"<", "a", " ", "h", "r", "e", "f", "=", "\"", "h", "t", "t", "p", "s", ":", "/", "/", "e", "x", "a", "m", "p", "l", "e", ".", "c", "o", "m", "\"", ">", "C", "l", "i", "c", "k", "<", "/", "a", ">">>),
     Some(<<"<", "a", " ", "h", "r", "e", "f", "=", "\"", "h", "t", "t", "p", "s", ":", "/", "/", "p", "a", "y", "p", "a", "1", ".", "c", "o", "m", "\"", ">", "P", "a", "y", "P", "a", "l", "<", "/", "a", ">", " ", "h", "t", "t", "p", "s", ":", "/", "/", "e", "x", "a", "m", "p", "l", "e", ".", "c", "o", "m">>)}

UrlInputs == [email_body : BodyTexts, email_html : HtmlTexts]

CallExtractUrls ==
    /\ tool.name = "extract_urls"
    /\ Called(extractUrlsCall(tool.input))

\* extractUrls has returned; the data of its (first) result.
UrlsReturned == tool.name = "extract_urls" /\ tool.first # Undefined
UrlsData == The(tool.first).data

\* C28: extract_urls returns each distinct URL string at most once, even
\* when it occurs in both the body and the HTML; total_found is the number
\* of URLs returned, and suspicious_count is the number of returned URLs
\* whose domain is not allow-listed, so suspicious_count <= total_found.
C28_UrlsDistinctAndCounted ==
    UrlsReturned =>
        LET urls == UrlsData.urls
        IN /\ \A j, k \in 1..Len(urls) : urls[j].url = urls[k].url => j = k
           /\ UrlsData.total_found = Len(urls)
           /\ UrlsData.suspicious_count
                 = Cardinality({k \in 1..Len(urls) :
                                   rootDomain(urls[k].domain) \notin SAFE_DOMAINS})
           /\ UrlsData.suspicious_count <= UrlsData.total_found

\* A URL that is in the body and in the HTML was returned once, next to
\* an allow-listed one.
C28_Witness ==
    /\ UrlsReturned
    /\ Truthy(tool.given.email_html)
    /\ \E k \in 1..Len(UrlsData.urls) :
          /\ includes(tool.given.email_body, UrlsData.urls[k].url)
          /\ includes(The(tool.given.email_html), UrlsData.urls[k].url)
    /\ UrlsData.total_found = 2
    /\ UrlsData.suspicious_count = 1

LocalInputs(name) ==
    IF name = "check_authentication" THEN [headers : HeaderMappings]
    ELSE IF name = "analyze_sender" THEN SenderInputs
    ELSE UrlInputs

LocalInit ==
    /\ entry = "localTool"
    /\ email = NoInput
    /\ pc = "none"
    /\ now = 0
    /\ startTime = 0
    /\ iterationCount = 0
    /\ toolCalls = <<>>
    /\ totalToolTime = 0
    /\ messages = <<>>
    /\ response = Undefined
    /\ blockIdx = 0
    /\ toolResults = <<>>
    /\ callStart = 0
    /\ result = Undefined
    /\ thrown = Undefined
    /\ cause = Undefined
    /\ modelCallLog = <<>>
    /\ lastTurn = <<>>
    /\ simpleStart = 0
    /\ fallbackCalls = 0
    /\ simpleModelCalls = 0
    /\ store = NoStore
    /\ invocations = <<>>
    /\ \E name \in LocalToolNames :
          \E input \in LocalInputs(name) : tool = LocalCallState(name, input)

LocalNext ==
    \/ CallCheckAuthentication
    \/ CallAnalyzeSender
    \/ CallExtractUrls

LocalSpec == LocalInit /\ [][LocalNext]_vars

-----------------------------------------------------------------------------
\* The rate limiter: checkRateLimit against the Redis counters, one webhook
\* request after another, with the clock moving between requests.

RATE_LIMITS ==
    [perSender |-> [limit |-> 10, windowMs |-> 60 * 60 * 1000],
     global |-> [limit |-> 100, windowMs |-> 60 * 60 * 1000],
     circuitBreaker |-> [limit |-> 50, windowMs |-> 10 * 60 * 1000]]

Senders == {"sender@example.com"}

senderKey(from) == <<"rate-limit:sender:", from>>
globalKey == <<"rate-limit:global">>
circuitBreakerKey == <<"circuit-breaker:global">>
RateKeys == {senderKey(from) : from \in Senders} \cup {globalKey, circuitBreakerKey}

\* The clock moves in steps of half the per-sender window, MaxTicks times;
\* MaxEmails requests are made.
Tick == RATE_LIMITS.perSender.windowMs \div 2
MaxTicks == 2
MaxEmails == 12

\* The store: the keys that exist, their values, and when each is due to
\* expire (Undefined for a key without a TTL).
EmptyStore ==
    [keys |-> {}, value |-> [k \in RateKeys |-> 0],
     expiresAt |-> [k \in RateKeys |-> Undefined]]

\* INCR: a key that does not exist is created at 1, without a TTL.
incr(st, key) ==
    IF key \in st.keys
    THEN [st EXCEPT !.value[key] = @ + 1]
    ELSE [st EXCEPT !.keys = @ \cup {key}, !.value[key] = 1,
                    !.expiresAt[key] = Undefined]

\* EXPIRE key seconds, issued at time t.
expire(st, key, seconds, t) ==
    IF key \in st.keys
    THEN [st EXCEPT !.expiresAt[key] = Some(t + seconds * 1000)]
    ELSE st

\* The store at time t: keys whose TTL has run out are gone.
Expired(st, t) ==
    LET gone == {k \in st.keys :
                    st.expiresAt[k] # Undefined /\ The(st.expiresAt[k]) <= t}
    IN [keys |-> st.keys \ gone,
        value |-> [k \in DOMAIN st.value |->
                      IF k \in gone THEN 0 ELSE st.value[k]],
        expiresAt |-> [k \in DOMAIN st.expiresAt |->
                          IF k \in gone THEN Undefined ELSE st.expiresAt[k]]]

\* const count = await redis.incr(key);
\* if (count === 1) await redis.expire(key, windowMs / 1000);
counted(st, key, windowMs, t) ==
    LET after == incr(st, key)
    IN IF after.value[key] = 1
       THEN expire(after, key, windowMs \div 1000, t)
       ELSE after

\* checkRateLimit(from) at time t, the store operations succeeding: the
\* store it leaves and the RateLimitCheck it returns.
checkRateLimit(st, from, t) ==
    LET s1 == counted(st, circuitBreakerKey,
                      RATE_LIMITS.circuitBreaker.windowMs, t)
        circuitBreakerCount == s1.value[circuitBreakerKey]
        s2 == counted(s1, senderKey(from), RATE_LIMITS.perSender.windowMs, t)
        senderCount == s2.value[senderKey(from)]
        s3 == counted(s2, globalKey, RATE_LIMITS.global.windowMs, t)
        globalCount == s3.value[globalKey]
        limits(perSender, global, globalLimit) ==
            [perSender |-> [count |-> perSender,
                            limit |-> RATE_LIMITS.perSender.limit],
             global |-> [count |-> global, limit |-> globalLimit]]
    IN IF circuitBreakerCount > RATE_LIMITS.circuitBreaker.limit
       THEN [store |-> s1,
             check |-> [allowed |-> FALSE,
                        reason |-> Some(<<"Circuit breaker triggered">>),
                        limits |-> limits(0, circuitBreakerCount,
                                          RATE_LIMITS.circuitBreaker.limit)]]
       ELSE IF senderCount > RATE_LIMITS.perSender.limit
       THEN [store |-> s2,
             check |-> [allowed |-> FALSE,
                        reason |-> Some(<<"Rate limit exceeded for sender">>),
                        limits |-> limits(senderCount, 0,
                                          RATE_LIMITS.global.limit)]]
       ELSE IF globalCount > RATE_LIMITS.global.limit
       THEN [store |-> s3,
             check |-> [allowed |-> FALSE,
                        reason |-> Some(<<"Global rate limit exceeded">>),
                        limits |-> limits(senderCount, globalCount,
                                          RATE_LIMITS.global.limit)]]
       ELSE [store |-> s3,
             check |-> [allowed |-> TRUE, reason |-> Undefined,
                        limits |-> limits(senderCount, globalCount,
                                          RATE_LIMITS.global.limit)]]

\* The webhook's answer to the check: 429 when it is not allowed,
\* Undefined when the request goes on to the next layer.
rateLimitStatus(check) == IF check.allowed THEN Undefined ELSE Some(429)

RateInit ==
    /\ entry = "webhook"
    /\ email = NoInput
    /\ pc = "none"
    /\ now = 0
    /\ startTime = 0
    /\ iterationCount = 0
    /\ toolCalls = <<>>
    /\ totalToolTime = 0
    /\ messages = <<>>
    /\ response = Undefined
    /\ blockIdx = 0
    /\ toolResults = <<>>
    /\ callStart = 0
    /\ result = Undefined
    /\ thrown = Undefined
    /\ cause = Undefined
    /\ modelCallLog = <<>>
    /\ lastTurn = <<>>
    /\ simpleStart = 0
    /\ fallbackCalls = 0
    /\ simpleModelCalls = 0
    /\ tool = NoTool
    /\ store = EmptyStore
    /\ invocations = <<>>

rateFrame ==
    <<entry, email, pc, startTime, iterationCount, toolCalls, totalToolTime,
      messages, response, blockIdx, toolResults, callStart, result, thrown,
      cause, modelCallLog, lastTurn, simpleStart, fallbackCalls,
      simpleModelCalls, tool>>

\* A request with an email of this sender reaches layer 2.
CheckRateLimit(from) ==
    /\ Len(invocations) < MaxEmails
    /\ LET done == checkRateLimit(store, from, now)
       IN /\ store' = done.store
          /\ invocations' = Append(invocations,
                               [from |-> from, at |-> now,
                                check |-> done.check,
                                status |-> rateLimitStatus(done.check)])
    /\ UNCHANGED <<rateFrame, now>>

\* Time passes between requests; keys whose TTL has run out disappear.
TimePasses ==
    /\ now < MaxTicks * Tick
    /\ now' = now + Tick
    /\ store' = Expired(store, now')
    /\ UNCHANGED <<rateFrame, invocations>>

RateNext ==
    \/ \E from \in Senders : CheckRateLimit(from)
    \/ TimePasses

RateSpec == RateInit /\ [][RateNext]_vars

\* The requests of the sender of request i that were allowed within the
\* hour that starts with request i.
AllowedWithinHourFrom(i) ==
    {j \in 1..Len(invocations) :
        /\ invocations[j].from = invocations[i].from
        /\ invocations[j].check.allowed
        /\ invocations[j].at >= invocations[i].at
        /\ invocations[j].at < invocations[i].at + 60 * 60 * 1000}

\* C30: of the emails from one sender submitted within any period of one
\* hour, at most 10 are allowed by checkRateLimit; the 11th email of a
\* sender within an hour is rejected (HTTP 429), the store operations
\* succeeding.
C30_AtMostTenPerSenderPerHour ==
    \A i \in 1..Len(invocations) :
       /\ Cardinality(AllowedWithinHourFrom(i)) <= 10
       /\ ~invocations[i].check.allowed => invocations[i].status = Some(429)

-----------------------------------------------------------------------------
\* Layers 2 and 3 of the webhook, store call by store call: requests that
\* run concurrently against one store whose calls can fail.  POST calls
\* checkRateLimit(email.from), answers 429 when it is not allowed, then
\* calls checkDeduplication(email.subject, email.body).

Requests == {"r1", "r2"}
Before(q, r) == q = "r1" /\ r = "r2"
GuardSenders == Senders \cup {"other@example.com"}
Contents == {[subject |-> "Invoice", body |-> "Please pay"]}

\* hashContent: the SHA-256 digest of the content, as a token of the content.
hashContent(content) == "sha256(" \o content \o ")"

\* const dedupeKey = `dedupe:${contentHash}` of `${subject}|${body}`
dedupeKey(subject, body) == <<"dedupe:", hashContent(subject \o "|" \o body)>>

CounterKeys ==
    {senderKey(from) : from \in GuardSenders} \cup {globalKey, circuitBreakerKey}
GuardKeys == CounterKeys \cup {dedupeKey(c.subject, c.body) : c \in Contents}

GuardEmptyStore ==
    [keys |-> {}, value |-> [k \in GuardKeys |-> 0],
     expiresAt |-> [k \in GuardKeys |-> Undefined]]

\* SET key value EX seconds, issued at time t.
set(st, key, val, ex, t) ==
    [st EXCEPT !.keys = @ \cup {key}, !.value[key] = val,
               !.expiresAt[key] = Some(t + ex * 1000)]

\* The store st once emails of senders outside GuardSenders, checked at
\* time t with every store call succeeding, have brought the circuit
\* breaker's counter to n: each was counted by the circuit breaker and the
\* global counter (their own sender keys are not followed).
RECURSIVE AfterEarlier(_, _, _)
AfterEarlier(st, n, t) ==
    IF n = st.value[circuitBreakerKey]
    THEN st
    ELSE AfterEarlier(counted(counted(st, circuitBreakerKey,
                                      RATE_LIMITS.circuitBreaker.windowMs, t),
                              globalKey, RATE_LIMITS.global.windowMs, t),
                      n, t)

\* The numbers of earlier emails the store starts from: none, one less
\* than the circuit breaker's limit, or as many as the limit.
EarlierEmails ==
    {0, RATE_LIMITS.circuitBreaker.limit - 1, RATE_LIMITS.circuitBreaker.limit}

\* The clock moves in steps of the circuit breaker's window.
GuardTick == RATE_LIMITS.circuitBreaker.windowMs

\* The three counters of checkRateLimit in the order of the code.
stageKey(stage, from) ==
    CASE stage = "circuitBreaker" -> circuitBreakerKey
      [] stage = "perSender" -> senderKey(from)
      [] stage = "global" -> globalKey

limitsOf(perSender, global, globalLimit) ==
    [perSender |-> [count |-> perSender, limit |-> RATE_LIMITS.perSender.limit],
     global |-> [count |-> global, limit |-> globalLimit]]

\* The RateLimitCheck returned when the counter of a stage is over its limit.
rejection(stage, count) ==
    CASE stage = "circuitBreaker" ->
            [allowed |-> FALSE,
             reason |-> Some(<<"Circuit breaker triggered">>),
             limits |-> limitsOf(0, count.circuitBreaker,
                                 RATE_LIMITS.circuitBreaker.limit)]
      [] stage = "perSender" ->
            [allowed |-> FALSE,
             reason |-> Some(<<"Rate limit exceeded for sender">>),
             limits |-> limitsOf(count.perSender, 0, RATE_LIMITS.global.limit)]
      [] stage = "global" ->
            [allowed |-> FALSE,
             reason |-> Some(<<"Global rate limit exceeded">>),
             limits |-> limitsOf(count.perSender, count.global,
                                 RATE_LIMITS.global.limit)]

\* // Rate limit passed
passed(count) ==
    [allowed |-> TRUE, reason |-> Undefined,
     limits |-> limitsOf(count.perSender, count.global, RATE_LIMITS.global.limit)]

\* A catch that rejects the email instead of letting it through.
rateLimitCatch_FailClosed ==
    [allowed |-> FALSE, reason |-> Some(<<"Rate limit check failed">>),
     limits |-> limitsOf(0, 0, RATE_LIMITS.global.limit)]

\* catch (error) of checkRateLimit: // Fail open (allow request)
rateLimitCatch ==
    [allowed |-> TRUE, reason |-> Undefined,
     limits |-> limitsOf(0, 0, RATE_LIMITS.global.limit)]

\* POST with the check that checkRateLimit returned:
\* if (!rateLimitCheck.allowed) return 429; otherwise checkDeduplication
\* begins with its redis.get.
returned(req, check) ==
    IF check.allowed
    THEN [req EXCEPT !.pc = "get", !.check = Some(check)]
    ELSE [req EXCEPT !.pc = "responded", !.check = Some(check),
                     !.status = Some(429)]

\* A circuit breaker that counts but never rejects.
afterCounted_BreakerOnlyCounts(req) ==
    IF /\ req.stage # "circuitBreaker"
       /\ req.count[req.stage] > RATE_LIMITS[req.stage].limit
    THEN returned(req, rejection(req.stage, req.count))
    ELSE IF req.stage = "global"
    THEN returned(req, passed(req.count))
    ELSE [req EXCEPT !.pc = "incr",
                     !.stage = IF req.stage = "circuitBreaker"
                               THEN "perSender" ELSE "global"]

\* checkRateLimit once the counter of req.stage is incremented (and has its
\* TTL when it was new): it returns the rejection when the count is over
\* the limit, goes on to the next counter otherwise, and returns the
\* passed check after the global counter.
afterCounted(req) ==
    IF req.count[req.stage] > RATE_LIMITS[req.stage].limit
    THEN returned(req, rejection(req.stage, req.count))
    ELSE IF req.stage = "global"
    THEN returned(req, passed(req.count))
    ELSE [req EXCEPT !.pc = "incr",
                     !.stage = IF req.stage = "circuitBreaker"
                               THEN "perSender" ELSE "global"]

IdleRequest ==
    [pc |-> "idle", from |-> "", content |-> [subject |-> "", body |-> ""],
     stage |-> "circuitBreaker",
     count |-> [circuitBreaker |-> 0, perSender |-> 0, global |-> 0],
     seen |-> 0, incremented |-> {}, check |-> Undefined,
     dedupe |-> Undefined, failed |-> {}, status |-> Undefined]

GuardInit ==
    /\ entry = "POST"
    /\ email = NoInput
    /\ pc = "none"
    /\ now = 0
    /\ startTime = 0
    /\ iterationCount = 0
    /\ toolCalls = <<>>
    /\ totalToolTime = 0
    /\ messages = <<>>
    /\ response = Undefined
    /\ blockIdx = 0
    /\ toolResults = <<>>
    /\ callStart = 0
    /\ result = Undefined
    /\ thrown = Undefined
    /\ cause = Undefined
    /\ modelCallLog = <<>>
    /\ lastTurn = <<>>
    /\ simpleStart = 0
    /\ fallbackCalls = 0
    /\ simpleModelCalls = 0
    /\ tool = NoTool
    /\ \E n \in EarlierEmails : store = AfterEarlier(GuardEmptyStore, n, 0)
    /\ invocations = [r \in Requests |-> IdleRequest]

\* POST reaches layer 2 with an email: checkRateLimit(email.from) begins.
\* The requests are numbered in the order of their arrival.
ReceiveEmail(r, from, content) ==
    /\ invocations[r].pc = "idle"
    /\ \A earlier \in Requests : Before(earlier, r) => invocations[earlier].pc # "idle"
    /\ invocations' = [invocations EXCEPT ![r] =
                          [@ EXCEPT !.pc = "incr", !.from = from,
                                    !.content = content]]
    /\ UNCHANGED <<rateFrame, now, store>>

\* const count = await redis.incr(key), the call succeeding.
Incr(r) ==
    LET req == invocations[r]
        key == stageKey(req.stage, req.from)
        after == incr(store, key)
        counts == [req EXCEPT !.count[req.stage] = after.value[key],
                              !.incremented = @ \cup {key},
                              !.seen = IF req.stage = "circuitBreaker"
                                       THEN store.value[key] ELSE @]
    IN /\ req.pc = "incr"
       /\ store' = after
       /\ invocations' = [invocations EXCEPT ![r] =
                             IF after.value[key] = 1
                             THEN [counts EXCEPT !.pc = "expire"]
                             ELSE afterCounted(counts)]
       /\ UNCHANGED <<rateFrame, now>>

\* if (count === 1) await redis.expire(key, windowMs / 1000), succeeding.
Expire(r) ==
    LET req == invocations[r]
        key == stageKey(req.stage, req.from)
    IN /\ req.pc = "expire"
       /\ store' = expire(store, key,
                          RATE_LIMITS[req.stage].windowMs \div 1000, now)
       /\ invocations' = [invocations EXCEPT ![r] = afterCounted(req)]
       /\ UNCHANGED <<rateFrame, now>>

\* A store call of checkRateLimit rejects: the catch returns its check.
RateLimitStoreFails(r) ==
    LET req == invocations[r]
    IN /\ req.pc \in {"incr", "expire"}
       /\ invocations' = [invocations EXCEPT ![r] =
             returned([req EXCEPT
                          !.failed = @ \cup {"checkRateLimit"},
                          !.seen = IF /\ req.pc = "incr"
                                      /\ req.stage = "circuitBreaker"
                                   THEN store.value[circuitBreakerKey] ELSE @],
                      rateLimitCatch)]
       /\ UNCHANGED <<rateFrame, now, store>>

\* const exists = await redis.get(dedupeKey), succeeding; a duplicate is
\* answered { success: true, ignored: true }.
Get(r) ==
    LET req == invocations[r]
        key == dedupeKey(req.content.subject, req.content.body)
    IN /\ req.pc = "get"
       /\ invocations' = [invocations EXCEPT ![r] =
             IF key \in store.keys
             THEN [req EXCEPT !.pc = "responded", !.status = Some(200),
                              !.dedupe = Some([allowed |-> FALSE])]
             ELSE [req EXCEPT !.pc = "set"]]
       /\ UNCHANGED <<rateFrame, now, store>>

\* await redis.set(dedupeKey, '1', { ex: 60 * 60 }), succeeding; the email
\* goes on to analyzeEmail.
Set(r) ==
    LET req == invocations[r]
        key == dedupeKey(req.content.subject, req.content.body)
    IN /\ req.pc = "set"
       /\ store' = set(store, key, 1, 60 * 60, now)
       /\ invocations' = [invocations EXCEPT ![r] =
             [req EXCEPT !.pc = "analyzeEmail",
                         !.dedupe = Some([allowed |-> TRUE])]]
       /\ UNCHANGED <<rateFrame, now>>

\* A store call of checkDeduplication rejects: // Fail open
DeduplicationStoreFails(r) ==
    LET req == invocations[r]
    IN /\ req.pc \in {"get", "set"}
       /\ invocations' = [invocations EXCEPT ![r] =
             [req EXCEPT !.pc = "analyzeEmail",
                         !.dedupe = Some([allowed |-> TRUE]),
                         !.failed = @ \cup {"checkDeduplication"}]]
       /\ UNCHANGED <<rateFrame, now, store>>

\* Time passes; keys whose TTL has run out disappear.
GuardTimePasses ==
    /\ now < MaxTicks * GuardTick
    /\ now' = now + GuardTick
    /\ store' = Expired(store, now')
    /\ UNCHANGED <<rateFrame, invocations>>

GuardNext ==
    \/ \E r \in Requests, from \in GuardSenders, content \in Contents :
          ReceiveEmail(r, from, content)
    \/ \E r \in Requests : Incr(r)
    \/ \E r \in Requests : Expire(r)
    \/ \E r \in Requests : RateLimitStoreFails(r)
    \/ \E r \in Requests : Get(r)
    \/ \E r \in Requests : Set(r)
    \/ \E r \in Requests : DeduplicationStoreFails(r)
    \/ GuardTimePasses

GuardSpec == GuardInit /\ [][GuardNext]_vars

\* The requests whose checkRateLimit has returned.
RateLimitReturned == {r \in Requests : invocations[r].check # Undefined}

\* The requests that checkRateLimit rejected for the circuit breaker.
BreakerRejected ==
    {r \in RateLimitReturned :
        The(invocations[r].check) =
            rejection("circuitBreaker", invocations[r].count)}

\* C31 (as stated): once more than 50 emails have been counted in the
\* circuit breaker's window, checkRateLimit rejects every further email
\* from any sender while that counter lives (the email finds the counter
\* above 50 when its check reaches the store), and a request rejected by
\* the circuit breaker increments neither the per-sender nor the global
\* counter.
C31_BreakerRejectsEveryFurtherEmail ==
    /\ \A r \in RateLimitReturned :
          invocations[r].seen > RATE_LIMITS.circuitBreaker.limit
             => ~The(invocations[r].check).allowed
    /\ \A r \in BreakerRejected :
          invocations[r].incremented = {circuitBreakerKey}

\* C31 (amended): every further email whose circuit-breaker increment
\* succeeds and returns more than 50 is rejected by the circuit breaker and
\* answered 429, whoever its sender is, and has incremented neither the
\* per-sender nor the global counter.
C31_CountedOverLimitIsRejected ==
    /\ \A r \in Requests :
          invocations[r].count.circuitBreaker > RATE_LIMITS.circuitBreaker.limit
             => /\ r \in BreakerRejected
                /\ invocations[r].status = Some(429)
    /\ \A r \in BreakerRejected :
          invocations[r].incremented = {circuitBreakerKey}

C31_Witness ==
    \E q \in BreakerRejected, r \in BreakerRejected :
       /\ invocations[q].from # invocations[r].from
       /\ invocations[r].seen > RATE_LIMITS.circuitBreaker.limit
       /\ store.value[globalKey] = RATE_LIMITS.circuitBreaker.limit

\* The requests that passed checkDeduplication and went on to analyzeEmail.
PassedDeduplication ==
    {r \in Requests : invocations[r].dedupe = Some([allowed |-> TRUE])}

\* C32: of two emails with identical subject and body handled within one
\* hour, concurrently or not, at most one passes checkDeduplication and is
\* analyzed (no store call failing).
C32_AtMostOnePasses ==
    \A q \in PassedDeduplication, r \in PassedDeduplication :
       /\ invocations[q].content = invocations[r].content
       /\ invocations[q].failed = {}
       /\ invocations[r].failed = {}
       => q = r

\* C36: a check in which a store operation failed returns allowed = true:
\* after a failure in checkRateLimit the request is not answered 429 and
\* goes on to layer 3, after a failure in checkDeduplication it goes on to
\* analyzeEmail.
C36_FailOpen ==
    \A r \in Requests :
       /\ "checkRateLimit" \in invocations[r].failed
             => /\ invocations[r].check = Some(rateLimitCatch)
                /\ The(invocations[r].check).allowed
                /\ invocations[r].status # Some(429)
       /\ "checkDeduplication" \in invocations[r].failed
             => /\ invocations[r].dedupe = Some([allowed |-> TRUE])
                /\ invocations[r].pc = "analyzeEmail"

C36_Witness ==
    \E r \in Requests :
       /\ invocations[r].failed = {"checkRateLimit", "checkDeduplication"}
       /\ invocations[r].pc = "analyzeEmail"

\* The requests about to give the key its TTL.
Expiring(key) ==
    {r \in Requests :
        /\ invocations[r].pc = "expire"
        /\ stageKey(invocations[r].stage, invocations[r].from) = key}

\* C37: every rate-limit and circuit-breaker counter key in the store has
\* an expiry, unless the check that created it is about to set it; also
\* after a store call failed between the increment and the expire.
C37_CounterKeysExpire ==
    \A key \in store.keys \cap CounterKeys :
       store.expiresAt[key] # Undefined \/ Expiring(key) # {}

-----------------------------------------------------------------------------
\* The inbound webhook: POST of app/api/inbound/route.ts with layer 1,
\* detectEmailLoop of lib/email-loop-prevention.ts, character by character.

\* const AGENT_EMAIL = process.env.RESEND_AGENT_EMAIL!
AGENT_EMAIL == Some(<<"b", "o", "t", "@", "a", ".", "i", "o">>)

\* \s of a regular expression, and the characters String.trim removes.
IsSpace(c) == c \in {" ", "\t", "\n", "\r"}

\* s.split(sep) for a separator of one character.
RECURSIVE split(_, _)
split(s, sep) ==
    IF \E k \in 1..Len(s) : s[k] = sep
    THEN LET at == Least({k \in 1..Len(s) : s[k] = sep})
         IN <<SubSeq(s, 1, at - 1)>> \o split(SubSeq(s, at + 1, Len(s)), sep)
    ELSE <<s>>

\* s.split('@')[1]
afterAt(s) ==
    LET pieces == split(s, "@")
    IN IF Len(pieces) >= 2 THEN Some(pieces[2]) ELSE Undefined

\* const AGENT_DOMAIN = AGENT_EMAIL?.split('@')[1]
AGENT_DOMAIN == IF AGENT_EMAIL = Undefined THEN Undefined ELSE afterAt(The(AGENT_EMAIL))

\* String.prototype.trim
RECURSIVE jsTrim(_)
jsTrim(s) ==
    IF s # <<>> /\ IsSpace(Head(s)) THEN jsTrim(Tail(s))
    ELSE IF s # <<>> /\ IsSpace(s[Len(s)]) THEN jsTrim(SubSeq(s, 1, Len(s) - 1))
    ELSE s

\* from.match(/<(.+?)>/): the leftmost "<" that is followed, after one or
\* more characters other than line ends, by ">"; the group ends at the
\* first such ">".
bracketClose(s, open) ==
    Least({k \in (open + 2)..Len(s) :
              /\ s[k] = ">"
              /\ \A j \in (open + 1)..(k - 1) : s[j] \notin {"\n", "\r"}})
bracketOpen(s) ==
    Least({k \in 1..Len(s) : s[k] = "<" /\ bracketClose(s, k) # 0})

\* function extractEmailAddress(from): match ? match[1] : from
extractEmailAddress(from) ==
    IF bracketOpen(from) = 0
    THEN from
    ELSE SubSeq(from, bracketOpen(from) + 1,
                bracketClose(from, bracketOpen(from)) - 1)

\* Where one repetition of (Re:\s*) that starts at position i ends (the
\* position after its white space), 0 when "Re:" is not at i; /i.
rePrefixEnd(s, i) ==
    IF i + 2 <= Len(s) /\ toLowerCase(SubSeq(s, i, i + 2)) = <<"r", "e", ":">>
    THEN Least({k \in (i + 3)..(Len(s) + 1) : k = Len(s) + 1 \/ ~IsSpace(s[k])})
    ELSE 0

\* The repetitions of (Re:\s*)+ from position i on: the positions at which
\* they start, in order (the repetition is greedy).
RECURSIVE rePrefixStarts(_, _)
rePrefixStarts(s, i) ==
    IF rePrefixEnd(s, i) = 0
    THEN <<>>
    ELSE <<i>> \o rePrefixStarts(s, rePrefixEnd(s, i))

\* subject.match(/^(Re:\s*)+/i) || []: the array of the whole match and of
\* the capturing group, which holds the last repetition.
rePrefixMatch(subject) ==
    LET starts == rePrefixStarts(subject, 1)
        last == starts[Len(starts)]
        end == rePrefixEnd(subject, last)
    IN IF starts = <<>>
       THEN <<>>
       ELSE <<SubSeq(subject, 1, end - 1), SubSeq(subject, last, end - 1)>>

\* array.join('')
RECURSIVE joined(_)
joined(array) ==
    IF array = <<>> THEN <<>> ELSE Head(array) \o joined(Tail(array))

\* text.match(/Re:/gi)?.length || 0
reMatches(text) ==
    Cardinality({k \in 1..(Len(text) - 2) :
                    toLowerCase(SubSeq(text, k, k + 2)) = <<"r", "e", ":">>})

\* const reCount = (email.subject.match(/^(Re:\s*)+/i) || []).join('')
\*                     .match(/Re:/gi)?.length || 0
reCount(subject) == reMatches(joined(rePrefixMatch(subject)))

NoChecks == [selfReply |-> FALSE, sameDomain |-> FALSE, loopHeader |-> FALSE]

\* email.headers[name]: undefined for a header that is not there.
headerOf(headers, name) ==
    IF name \in DOMAIN headers THEN Some(headers[name]) ELSE Undefined

\* Check 1: fromAddress.toLowerCase() === AGENT_EMAIL?.toLowerCase()
selfReply(fromAddress) ==
    /\ AGENT_EMAIL # Undefined
    /\ toLowerCase(fromAddress) = toLowerCase(The(AGENT_EMAIL))

\* Check 2: AGENT_DOMAIN && fromDomain === AGENT_DOMAIN
sameDomain(fromAddress) ==
    /\ Truthy(AGENT_DOMAIN)
    /\ afterAt(fromAddress) = AGENT_DOMAIN

\* Check 3: autoSubmitted && autoSubmitted !== 'no'
autoSubmittedLoop(headers) ==
    LET autoSubmitted == headerOf(headers, <<"a", "u", "t", "o", "-", "s", "u", "b", "m", "i", "t", "t", "e", "d">>)
    IN Truthy(autoSubmitted) /\ The(autoSubmitted) # <<"n", "o">>

\* Check 3: autoResponseSuppress && autoResponseSuppress.toLowerCase() === 'all'
autoResponseSuppressLoop(headers) ==
    LET autoResponseSuppress ==
            headerOf(headers, <<"x", "-", "a", "u", "t", "o", "-", "r", "e", "s", "p", "o", "n", "s", "e", "-", "s", "u", "p", "p", "r", "e", "s", "s">>)
    IN /\ Truthy(autoResponseSuppress)
       /\ toLowerCase(The(autoResponseSuppress)) = <<"a", "l", "l">>

\* A detectEmailLoop that looks at the subject only.
detectEmailLoop_SubjectOnly(mail) ==
    IF reCount(mail.subject) >= 3
    THEN [isLoop |-> TRUE, reason |-> Some("Too many Re: prefixes in subject"),
          checks |-> NoChecks]
    ELSE [isLoop |-> FALSE, reason |-> Undefined, checks |-> NoChecks]

\* export function detectEmailLoop(email: EmailInput): EmailLoopCheck
detectEmailLoop(mail) ==
    IF selfReply(extractEmailAddress(mail.from))
    THEN [isLoop |-> TRUE, reason |-> Some("Email from agent itself (self-reply)"),
          checks |-> [NoChecks EXCEPT !.selfReply = TRUE]]
    ELSE IF sameDomain(extractEmailAddress(mail.from))
    THEN [isLoop |-> TRUE, reason |-> Some("Email from same domain as agent"),
          checks |-> [NoChecks EXCEPT !.sameDomain = TRUE]]
    ELSE IF autoSubmittedLoop(mail.headers)
    THEN [isLoop |-> TRUE, reason |-> Some("Auto-submitted email"),
          checks |-> [NoChecks EXCEPT !.loopHeader = TRUE]]
    ELSE IF autoResponseSuppressLoop(mail.headers)
    THEN [isLoop |-> TRUE, reason |-> Some("Auto-response suppressed"),
          checks |-> [NoChecks EXCEPT !.loopHeader = TRUE]]
    ELSE IF reCount(mail.subject) >= 3
    THEN [isLoop |-> TRUE, reason |-> Some("Too many Re: prefixes in subject"),
          checks |-> NoChecks]
    ELSE [isLoop |-> FALSE, reason |-> Undefined, checks |-> NoChecks]

\* The headers of one raw header line added to those of the lines before it.
withHeaderLine(headers, line) ==
    LET colonIndex == indexOf(line, <<":">>)
        key == toLowerCase(jsTrim(SubSeq(line, 1, colonIndex)))
        value == jsTrim(SubSeq(line, colonIndex + 2, Len(line)))
    IN IF colonIndex > 0 THEN (key :> value) @@ headers ELSE headers

\* for (const line of headerLines) { ... headers[key] = value }
RECURSIVE parsedHeaders(_)
parsedHeaders(headerLines) ==
    IF headerLines = <<>>
    THEN <<>>
    ELSE withHeaderLine(parsedHeaders(SubSeq(headerLines, 1, Len(headerLines) - 1)),
                        headerLines[Len(headerLines)])

\* if (field) headers[key] = field
withField(headers, key, field) ==
    IF Truthy(field) THEN (key :> The(field)) @@ headers ELSE headers

\* function parseEmailFromSendGrid(formData: FormData): EmailInput
\* (the envelope is given as no field; receivedAt is not read by the layers)
parseEmailFromSendGrid(formData) ==
    [from |-> The(formData.from),
     to |-> The(formData.to),
     subject |-> The(formData.subject),
     body |-> The(OrElse(OrElse(formData.text, formData.html), Some(<<>>))),
     headers |->
        withField(
           withField(IF Truthy(formData.headers)
                     THEN parsedHeaders(split(The(formData.headers), "\n"))
                     ELSE <<>>,
                     <<"d", "k", "i", "m">>, formData.dkim),
           <<"r", "e", "c", "e", "i", "v", "e", "d", "-", "s", "p", "f">>, formData.SPF)]

\* The From fields under which an email of the agent arrives: the address
\* it sends from, with a display name, in capitals, and with a comment.
AgentFroms ==
    {AGENT_EMAIL, Some(<<"B", "o", "t", " ", "<", "b", "o", "t", "@", "a", ".", "i", "o", ">">>), Some(<<"B", "O", "T", "@", "A", ".", "I", "O">>), Some(<<"b", "o", "t", "@", "a", ".", "i", "o", " ", "(", "B", "o", "t", ")">>)}

\* resend.emails.send({ from: AGENT_EMAIL, ..., headers: { 'Auto-Submitted':
\* 'auto-replied', 'X-Auto-Response-Suppress': 'OOF, AutoReply',
\* 'Precedence': 'auto_reply' } }): the raw header lines of the agent's email.
AgentHeaders ==
    Some(<<"A", "u", "t", "o", "-", "S", "u", "b", "m", "i", "t", "t", "e", "d", ":", " ", "a", "u", "t", "o", "-", "r", "e", "p", "l", "i", "e", "d">> \o <<"\r", "\n">>
         \o <<"X", "-", "A", "u", "t", "o", "-", "R", "e", "s", "p", "o", "n", "s", "e", "-", "S", "u", "p", "p", "r", "e", "s", "s", ":", " ", "O", "O", "F", ",", " ", "A", "u", "t", "o", "R", "e", "p", "l", "y">> \o <<"\r", "\n">>
         \o <<"P", "r", "e", "c", "e", "d", "e", "n", "c", "e", ":", " ", "a", "u", "t", "o", "_", "r", "e", "p", "l", "y">>)

FromFields ==
    AgentFroms \cup {Undefined, Some(<<"m", "e", "@", "a", ".", "i", "o">>), Some(<<"u", "s", "e", "r", "@", "b", ".", "i", "o">>), Some(<<"U", " ", "<", "u", "s", "e", "r", "@", "b", ".", "i", "o", ">">>)}
ToFields == {Undefined, AGENT_EMAIL}
SubjectFields ==
    {Undefined, Some(<<>>), Some(<<"H", "i">>), Some(<<"R", "e", ":", " ", "H", "i">>), Some(<<"R", "e", ":", " ", "R", "e", ":", " ", "H", "i">>),
     Some(<<"R", "E", ":", " ", "r", "e", ":", "R", "e", ":", " ", "H", "i">>), Some(<<"R", "e", ":", "R", "e", ":", "R", "e", ":", "R", "e", ":", " ", "H", "i">>), Some(<<"H", "i", " ", "R", "e", ":", " ", "R", "e", ":", " ", "R", "e", ":">>)}
HeaderFields ==
    {Undefined, AgentHeaders, Some(<<"A", "u", "t", "o", "-", "S", "u", "b", "m", "i", "t", "t", "e", "d", ":", " ", "n", "o">>),
     Some(<<"X", "-", "A", "u", "t", "o", "-", "R", "e", "s", "p", "o", "n", "s", "e", "-", "S", "u", "p", "p", "r", "e", "s", "s", ":", " ", "A", "l", "l">>), Some(<<"S", "u", "b", "j", "e", "c", "t", ":", " ", "H", "i">>)}

FormDatas ==
    [from : FromFields, to : ToFields, subject : SubjectFields,
     headers : HeaderFields, text : {Some(<<"P", "l", "e", "a", "s", "e", " ", "c", "h", "e", "c", "k">>)}, html : {Undefined},
     dkim : {Some(<<"p", "a", "s", "s">>)}, SPF : {Undefined}]

\* return NextResponse.json(body, { status }): the request is answered.
respond(req, status, body) ==
    [req EXCEPT !.pc = "responded", !.status = Some(status), !.body = body]

PostInit ==
    /\ entry = "POST"
    /\ email = NoInput
    /\ pc = "none"
    /\ now = 0
    /\ startTime = 0
    /\ iterationCount = 0
    /\ toolCalls = <<>>
    /\ totalToolTime = 0
    /\ messages = <<>>
    /\ response = Undefined
    /\ blockIdx = 0
    /\ toolResults = <<>>
    /\ callStart = 0
    /\ result = Undefined
    /\ thrown = Undefined
    /\ cause = Undefined
    /\ modelCallLog = <<>>
    /\ lastTurn = <<>>
    /\ simpleStart = 0
    /\ fallbackCalls = 0
    /\ simpleModelCalls = 0
    /\ tool = NoTool
    /\ store = NoStore
    /\ \E formData \in FormDatas :
          invocations = [pc |-> "formData", form |-> formData,
                         loopCheck |-> Undefined, status |-> Undefined,
                         body |-> "", analyzed |-> FALSE, sent |-> FALSE]

postFrame == <<agentVars, tool, store>>

\* POST after await req.formData(): the required fields, parseEmailFromSendGrid
\* and layer 1.
validated(req) ==
    IF ~Truthy(req.form.from) \/ ~Truthy(req.form.to) \/ ~Truthy(req.form.subject)
    THEN respond(req, 400, "Invalid webhook payload")
    ELSE LET loopCheck == detectEmailLoop(parseEmailFromSendGrid(req.form))
         IN IF loopCheck.isLoop
            THEN respond([req EXCEPT !.loopCheck = Some(loopCheck)], 200, "ignored")
            ELSE [req EXCEPT !.loopCheck = Some(loopCheck), !.pc = "checkRateLimit"]

\* await req.formData() returns the fields of the payload.
FormDataRead ==
    /\ invocations.pc = "formData"
    /\ invocations' = validated(invocations)
    /\ UNCHANGED postFrame

\* catch (error): return 500 'Internal server error'; req.formData() rejects
\* for a payload that is not form data, analyzeEmail for a failed analysis.
PostThrows ==
    /\ invocations.pc \in {"formData", "analyzeEmail"}
    /\ invocations' = respond(invocations, 500, "Internal server error")
    /\ UNCHANGED postFrame

\* LAYER 2: const rateLimitCheck = await checkRateLimit(email.from)
RateLimitReturns(allowed) ==
    /\ invocations.pc = "checkRateLimit"
    /\ invocations' = IF allowed
                      THEN [invocations EXCEPT !.pc = "checkDeduplication"]
                      ELSE respond(invocations, 429, "Rate limit exceeded")
    /\ UNCHANGED postFrame

\* LAYER 3: const dedupeCheck = await checkDeduplication(subject, body)
DeduplicationReturns(allowed) ==
    /\ invocations.pc = "checkDeduplication"
    /\ invocations' = IF allowed
                      THEN [invocations EXCEPT !.pc = "analyzeEmail"]
                      ELSE respond(invocations, 200, "ignored")
    /\ UNCHANGED postFrame

\* const analysis = await analyzeEmail(email) returns an analysis.
AnalysisReturns ==
    /\ invocations.pc = "analyzeEmail"
    /\ invocations' = [invocations EXCEPT !.pc = "sendAnalysisEmail",
                                          !.analyzed = TRUE]
    /\ UNCHANGED postFrame

\* const emailResult = await sendAnalysisEmail({ to: email.from, ... });
\* if (!emailResult.success) return 500 'Failed to send analysis email'
SendReturns(success) ==
    /\ invocations.pc = "sendAnalysisEmail"
    /\ invocations' = IF success
                      THEN respond([invocations EXCEPT !.sent = TRUE], 200, "success")
                      ELSE respond(invocations, 500, "Failed to send analysis email")
    /\ UNCHANGED postFrame

PostNext ==
    \/ FormDataRead
    \/ PostThrows
    \/ \E allowed \in BOOLEAN : RateLimitReturns(allowed)
    \/ \E allowed \in BOOLEAN : DeduplicationReturns(allowed)
    \/ AnalysisReturns
    \/ \E success \in BOOLEAN : SendReturns(success)

PostSpec == PostInit /\ [][PostNext]_vars

\* The email that layer 1 looked at.
CheckedEmail == parseEmailFromSendGrid(invocations.form)

\* An email from an external sender (neither the agent's address nor its
\* domain) without the auto-reply headers.
ExternalWithoutAutoReply ==
    /\ ~selfReply(extractEmailAddress(CheckedEmail.from))
    /\ ~sameDomain(extractEmailAddress(CheckedEmail.from))
    /\ headerOf(CheckedEmail.headers, <<"a", "u", "t", "o", "-", "s", "u", "b", "m", "i", "t", "t", "e", "d">>) = Undefined
    /\ headerOf(CheckedEmail.headers, <<"x", "-", "a", "u", "t", "o", "-", "r", "e", "s", "p", "o", "n", "s", "e", "-", "s", "u", "p", "p", "r", "e", "s", "s">>) = Undefined

\* The number of 'Re:' prefixes the subject starts with.
LeadingRePrefixes == Len(rePrefixStarts(CheckedEmail.subject, 1))

\* C33: for an email from an external sender without auto-reply headers,
\* detectEmailLoop reports a loop exactly when the subject starts with three
\* or more 'Re:' prefixes; one or two leading prefixes give isLoop = false.
C33_LoopIffThreeRePrefixes ==
    invocations.loopCheck # Undefined /\ ExternalWithoutAutoReply
       => (The(invocations.loopCheck).isLoop <=> LeadingRePrefixes >= 3)

\* An email sent by the agent itself: its From field and the headers that
\* sendAnalysisEmail sets.
FromAgentItself ==
    /\ invocations.form.from \in AgentFroms
    /\ invocations.form.headers = AgentHeaders

\* C34: an email sent by the agent itself that arrives at the webhook is
\* never analyzed and no report is sent in response: the request does not
\* get past layer 1, and when it is answered 200 it is answered as ignored.
C34_OwnEmailIsIgnored ==
    FromAgentItself
       => /\ ~invocations.analyzed
          /\ ~invocations.sent
          /\ invocations.pc \in {"formData", "responded"}
          /\ invocations.status = Some(200) => invocations.body = "ignored"

C34_Witness ==
    /\ FromAgentItself
    /\ invocations.pc = "responded"
    /\ invocations.body = "ignored"
    /\ invocations.form.from # AGENT_EMAIL
    /\ The(invocations.loopCheck).checks.loopHeader

\* C35: the webhook always responds with HTTP status 200, also when the
\* payload is invalid, the sender is rate-limited, the analysis fails or
\* sending the report fails.
C35_AlwaysStatus200 ==
    invocations.pc = "responded" => invocations.status = Some(200)

=============================================================================
